---------------------------- MODULE Spec2Model ----------------------------
(***************************************************************************)
(* Model of the story toy: the per-turn tier cascade of POST /api/chat,    *)
(* the story generation routes, the strict sanitizers, the deterministic   *)
(* fallback stories and GET /api/memories on the server; hold-to-record,   *)
(* deferred playback, the WAV encoder, generate, the conversation id and   *)
(* pickRecordingMime on the page.                                          *)
(*                                                                         *)
(* A string is a sequence of UTF-16 code units (naturals), so that trim,   *)
(* the regular-expression passes and charCodeAt are computed as the code   *)
(* computes them.  JavaScript's undefined is the value Undef.              *)
(***************************************************************************)
EXTENDS Integers, Sequences, FiniteSets, TLC

VARIABLES
    chatPc,               \* position of the POST /api/chat handler
    chatReq,              \* the request being handled (and the env it sees)
    voiceOutcome,         \* how the voice-tier attempt ended
    textOutcome,          \* how the text-tier attempt ended
    ttsOutcome,           \* how the TTS attempt ended
    textOut,              \* route.ts:256
    assistantAudioBase64, \* route.ts:257
    upstreamMode,         \* route.ts:259
    voiceRequestId,       \* route.ts:260
    chatRequestId,        \* route.ts:261
    ttsRequestId,         \* route.ts:262
    requestId,            \* route.ts:128
    calls,                \* upstream calls made for this turn, in order
    memories,             \* number of records appended by appendMemory
    chatResp,             \* the response returned, or NoResp
    sanPc,                \* sanitizer run: "raw", "once", "twice"
    sanLang,              \* "zh" or "en"
    sanRaw,               \* the raw text handed to the sanitizer
    sanOut,               \* sanitize(sanRaw)
    sanAgain,             \* sanitize(sanOut)
    fbPc,                 \* fallback run: "seed", "done"
    fbLang,               \* "zh" or "en"
    fbSeed,               \* the seed, as the route clamps it
    fbStory,              \* fallback(fbSeed, fbLang)
    genPc,                \* position of a generation route's POST handler
    genRoute,             \* "bilingual", "zh" (/api/generate) or "en" (/api/generate-en)
    genSeed,              \* seed, after clampText
    genUpstream,          \* how the zhipuChatCompletions call ended
    genRaw,               \* the story text per language as the upstream returned it
    genSanitized,         \* the sanitizer's output per language, before any fallback
    genStory,             \* the story per language
    genMemories,          \* number of records appended by appendMemory
    genResp,              \* the response returned, or NoResp
    chatBusy,             \* page state: a chat turn is running
    chatSending,          \* page state: a recording is being stopped and sent
    recording,            \* page state: the recorder runs
    chatPhase,            \* page state: "idle", "recording", "encoding", "thinking", "speaking"
    chatMessages,         \* page state: the chat history
    chatPressingRef,      \* the talk button is held
    abortRecordingRef,    \* the recording is to be dropped, not sent
    recordStopAttemptRef, \* the attempt counter of stopRecordingAndSend
    recordStopWatchdogRef,\* the stop watchdog the ref holds (by its attempt id), or 0
    mediaRecorderRef,     \* the recorder the ref holds, or NoRecorder
    streamRef,            \* the stream the ref holds (by its recorder), or NoRecorder
    recordedChunksRef,    \* the chunks recorded, each by the recorder that pushed it
    recorders,            \* every MediaRecorder made, with its callbacks' position
    watchdogs,            \* the stop watchdog timers that are pending
    requests,             \* the /api/chat requests that are outstanding
    nextTurn,             \* number of the next chat turn
    liveTracks,           \* the streams (by recorder) whose tracks are not stopped
    canSystemSpeak,       \* the browser has speechSynthesis
    pendingSpeakTextRef,  \* the story text waiting to be spoken, or NoText
    speakOnGestureArmedRef,     \* a story-speech listener set is registered
    pendingChatSpeakTextRef,    \* the reply text waiting to be spoken, or NoText
    chatSpeakOnGestureArmedRef, \* a chat-speech listener set is registered
    pendingChatPlayUrlRef,      \* the reply audio waiting to be played, or NoText
    chatPlayOnGestureArmedRef,  \* a chat-audio listener set is registered
    gestureListeners,     \* listener sets registered on the window, per kind
    gestureAttempts,      \* playback attempts the listeners made in this tap, per kind
    gestureEvent,         \* the event of the tap dispatched last (index), or 0
    chatPlaysAwaited,     \* chat-audio listeners awaiting audio.play()
    turnsStarted,         \* sendChat calls past their guard
    turnsAnswered,        \* sendChat calls that got their reply
    wavPc,                \* encoder run: "decoded", "encoded"
    wavBuffer,            \* the decoded AudioBuffer (length, sampleRate, numberOfChannels)
    wavBlob,              \* audioBufferToWavBlob(wavBuffer)
    extJson,              \* a JSON body an upstream chat call returned
    extVoicePc,           \* the voice tier's extraction: "parsed", "returned", "thrown"
    extVoiceText,         \* textOut of the voice tier (route.ts:318)
    extChatPc,            \* zhipuChatCompletions' extraction: "parsed", "returned", "thrown"
    extContent,           \* the content zhipuChatCompletions returns
    generatePc,           \* position of generate: "idle", "story", "tts", "play"
    busy,                 \* page state: a story is being generated
    storyZh,              \* page state: the Chinese story shown, or NoText
    storyEn,              \* page state: the English story, or NoText
    error,                \* page state: the message shown, or NoMessage
    audioUrlZh,           \* page state: the story's audio (by its story), or NoText
    playing,              \* page state: the story is being played
    ttsRes,               \* how the /api/tts call of this generation ended
    playRes,              \* how audio.play() of this generation ended
    generations,          \* generate calls past their guard
    conversationId,       \* page state: the conversation id stored, or Empty
    convBusy,             \* chatBusy as sendChat sees it
    convTurns,            \* the chat turns sent: request, server side, client side
    convEpoch,            \* resets and new generations so far
    uuids,                \* ids crypto.randomUUID() has returned
    memPc,                \* position of GET /api/memories: "idle", "received", "reading", "done"
    memEnv,               \* STORY_ADMIN_TOKEN, or Undef
    memReq,               \* the request: authorization header, token and limit parameters
    memLog,               \* the log file: readable or not, and its lines
    memReads,             \* calls of readMemories
    memResp,              \* the response returned, or NoResp
    mimePc,               \* "idle", "asked" before pickRecordingMime runs, "picked" after
    mimeEnv,              \* the browser: isIOS, isWeChat, MediaRecorder defined, isTypeSupported
    mimeType              \* what pickRecordingMime returned

chatVars == <<chatPc, chatReq, voiceOutcome, textOutcome, ttsOutcome, textOut,
              assistantAudioBase64, upstreamMode, voiceRequestId, chatRequestId,
              ttsRequestId, requestId, calls, memories, chatResp>>

sanVars == <<sanPc, sanLang, sanRaw, sanOut, sanAgain>>

fbVars == <<fbPc, fbLang, fbSeed, fbStory>>

genVars == <<genPc, genRoute, genSeed, genUpstream, genRaw, genSanitized, genStory,
             genMemories, genResp>>

toyVars == <<chatBusy, chatSending, recording, chatPhase, chatMessages,
             chatPressingRef, abortRecordingRef, recordStopAttemptRef,
             recordStopWatchdogRef, mediaRecorderRef, streamRef, recordedChunksRef,
             recorders, watchdogs, requests, nextTurn, liveTracks>>

playVars == <<canSystemSpeak, pendingSpeakTextRef, speakOnGestureArmedRef,
              pendingChatSpeakTextRef, chatSpeakOnGestureArmedRef,
              pendingChatPlayUrlRef, chatPlayOnGestureArmedRef, gestureListeners,
              gestureAttempts, gestureEvent, chatPlaysAwaited, turnsStarted,
              turnsAnswered>>

wavVars == <<wavPc, wavBuffer, wavBlob>>

extVars == <<extJson, extVoicePc, extVoiceText, extChatPc, extContent>>

storyPageVars == <<generatePc, busy, storyZh, storyEn, error, audioUrlZh, playing, ttsRes, playRes, generations>>

convVars == <<conversationId, convBusy, convTurns, convEpoch, uuids>>

memVars == <<memPc, memEnv, memReq, memLog, memReads, memResp>>

mimeVars == <<mimePc, mimeEnv, mimeType>>

vars == <<chatVars, sanVars, fbVars, genVars, toyVars, playVars, wavVars,
         extVars,
         storyPageVars,
         convVars,
         memVars,
         mimeVars>>

-----------------------------------------------------------------------------
(* Strings *)

Undef == <<-1>>

\* The code units JavaScript's \s and String.prototype.trim treat as white space.
IsWs(c) ==
    \/ c \in {9, 10, 11, 12, 13, 32, 160, 5760, 8232, 8233, 8239, 8287, 12288, 65279}
    \/ c \in 8192..8202

RECURSIVE TrimStart(_)
TrimStart(s) ==
    IF s = <<>> THEN <<>>
    ELSE IF IsWs(Head(s)) THEN TrimStart(Tail(s)) ELSE s

RECURSIVE TrimEnd(_)
TrimEnd(s) ==
    IF s = <<>> THEN <<>>
    ELSE IF IsWs(s[Len(s)]) THEN TrimEnd(SubSeq(s, 1, Len(s) - 1)) ELSE s

Trim(s) == TrimEnd(TrimStart(s))

clampText(input, maxLen) ==
    LET s == Trim(input)
    IN  IF Len(s) <= maxLen THEN s ELSE SubSeq(s, 1, maxLen)

\* a ?? b
Coalesce(a, b) == IF a # Undef THEN a ELSE b

\* !value for a string-or-undefined value
Falsy(v) == v = Undef \/ v = <<>>

-----------------------------------------------------------------------------
(* POST /api/chat: src/src/app/api/chat/route.ts, with lib/zhipu *)

MaxMemories == 2

MaxAssistantText == 800

NoResp == [kind |-> "none"]

\* Sample strings: "", " ", "Hi", " Hi ".
Empty == <<>>
Blank == <<32>>
Hi == <<72, 105>>
PaddedHi == <<32, 72, 105, 32>>
SampleTexts == {Empty, Blank, Hi, PaddedHi}
MaybeText == {Undef} \cup SampleTexts

AudioB64 == <<85, 107, 108>>
StoryText == <<19968, 12290>>
KidText == <<104, 105>>
KidAudioB64 == <<81, 81>>
GivenConversationId == <<99, 49>>
FreshUuid == <<117, 117, 105, 100>>
TtsModelName == <<116, 116, 115>>
VoiceRid == <<118>>
ChatRid == <<99>>
TtsRid == <<116>>

\* The request body fields the handler reads, and the env it runs under.
ChatRequests ==
    [hasApiKey : BOOLEAN,
     story : {Empty, StoryText},
     inputText : {Empty, KidText},
     inputAudioBase64 : {Empty, KidAudioB64},
     conversationId : {Empty, GivenConversationId},
     ttsModel : {Empty, TtsModelName}]

\* The three JSON locations an upstream chat completion may carry its text at.
ChatJsons ==
    [messageContent : MaybeText, deltaContent : MaybeText, dataMessageContent : MaybeText]

\* route.ts:313-317
VoiceAssistantText(json) ==
    Coalesce(json.messageContent,
        Coalesce(json.deltaContent, Coalesce(json.dataMessageContent, Empty)))

\* route.ts:319 without the empty-content test
VoiceTextNeverRejected(t) == FALSE

\* route.ts:319: if (!textOut) throw
VoiceTextRejected(t) == t = Empty

\* zhipu.ts: content extraction of zhipuChatCompletions
ChatContent(data) ==
    Coalesce(data.messageContent, Coalesce(data.deltaContent, data.dataMessageContent))

\* zhipu.ts: the empty-content test of zhipuChatCompletions
ChatContentRejected(content) == content = Undef \/ Trim(content) = Empty

\* route.ts:363 with the test of the embedded audio dropped
AlwaysNeedsTts(audio) == TRUE

\* route.ts:363: if (!assistantAudioBase64)
NeedsTts(audio) == Falsy(audio)

\* route.ts:161
ConversationIdOf(req) ==
    IF Trim(req.conversationId) # Empty THEN Trim(req.conversationId) ELSE FreshUuid

ErrResponse(status, rid) ==
    [kind |-> "json", ok |-> FALSE, status |-> status, requestId |-> rid]

OkResponse(req, text, audio, rid, mode) ==
    [kind |-> "json", ok |-> TRUE, status |-> 200,
     conversationId |-> ConversationIdOf(req),
     assistantText |-> text, assistantAudioBase64 |-> audio,
     requestId |-> rid, upstream |-> mode]

ChatIdle ==
    /\ chatPc = "idle"
    /\ chatReq = [hasApiKey |-> TRUE, story |-> Empty, inputText |-> Empty,
                  inputAudioBase64 |-> Empty, conversationId |-> Empty,
                  ttsModel |-> Empty]
    /\ voiceOutcome = "none"
    /\ textOutcome = "none"
    /\ ttsOutcome = "none"
    /\ textOut = Empty
    /\ assistantAudioBase64 = Undef
    /\ upstreamMode = "voice"
    /\ voiceRequestId = Undef
    /\ chatRequestId = Undef
    /\ ttsRequestId = Undef
    /\ requestId = Undef
    /\ calls = <<>>
    /\ memories = 0
    /\ chatResp = NoResp

\* What the chat handler never touches.
notChatVars == <<sanVars, fbVars, genVars, toyVars, playVars, wavVars,
    extVars,
    storyPageVars,
    convVars,
    memVars,
    mimeVars>>

\* The outer catch of POST: route.ts:443-450
ChatThrow(rid) ==
    /\ chatPc' = "done"
    /\ chatResp' = ErrResponse(500, rid)

\* A request arrives: env check, body parsing and validation (route.ts:127-208),
\* and the handler's locals are declared (route.ts:256-262).
ChatReceive(req) ==
    /\ chatPc \in {"idle", "done"}
    /\ UNCHANGED notChatVars
    /\ memories < MaxMemories
    /\ chatReq' = req
    /\ voiceOutcome' = "none"
    /\ textOutcome' = "none"
    /\ ttsOutcome' = "none"
    /\ textOut' = Empty
    /\ assistantAudioBase64' = Undef
    /\ upstreamMode' = "voice"
    /\ voiceRequestId' = Undef
    /\ chatRequestId' = Undef
    /\ ttsRequestId' = Undef
    /\ requestId' = Undef
    /\ calls' = <<>>
    /\ UNCHANGED memories
    /\ IF ~req.hasApiKey
       THEN ChatThrow(Undef)
       ELSE IF clampText(req.story, 1400) = Empty
       THEN chatPc' = "done" /\ chatResp' = ErrResponse(400, Undef)
       ELSE IF clampText(req.inputText, 300) = Empty /\ req.inputAudioBase64 = Empty
       THEN chatPc' = "done" /\ chatResp' = ErrResponse(400, Undef)
       ELSE chatPc' = "voice" /\ chatResp' = NoResp

\* The catch of the voice attempt, retrying the voice tier
VoiceCaughtRetry(outcome) ==
    /\ voiceOutcome' = outcome
    /\ upstreamMode' = "chat_fallback"
    /\ chatPc' = "voice"

\* The catch of the voice attempt going on to the text tier without noting
\* the fallback in upstreamMode.
VoiceCaughtUnnoted(outcome) ==
    /\ voiceOutcome' = outcome
    /\ UNCHANGED upstreamMode
    /\ chatPc' = "text"

\* The catch of the voice attempt (route.ts:324-325): on to the text tier.
VoiceCaught(outcome) ==
    /\ voiceOutcome' = outcome
    /\ upstreamMode' = "chat_fallback"
    /\ chatPc' = "text"

\* The voice tier's fetch throws: network error, or abort on timeout
\* (route.ts:264-292).  No response, so no request id.
ChatVoiceNoResponse ==
    /\ chatPc = "voice"
    /\ UNCHANGED notChatVars
    /\ calls' = Append(calls, "voice")
    /\ \E outcome \in {"neterr", "timeout"} : VoiceCaught(outcome)
    /\ UNCHANGED <<chatReq, textOutcome, ttsOutcome, textOut, assistantAudioBase64,
                   voiceRequestId, chatRequestId, ttsRequestId, requestId,
                   memories, chatResp>>

\* The voice tier answers, but not with a usable body: non-2xx, or a body that
\* is no JSON (route.ts:294-312).
ChatVoiceBadResponse ==
    /\ chatPc = "voice"
    /\ UNCHANGED notChatVars
    /\ calls' = Append(calls, "voice")
    /\ \E rid \in {Undef, VoiceRid} :
          /\ voiceRequestId' = rid
          /\ requestId' = Coalesce(rid, requestId)
    /\ \E outcome \in {"non2xx", "badjson"} : VoiceCaught(outcome)
    /\ UNCHANGED <<chatReq, textOutcome, ttsOutcome, textOut, assistantAudioBase64,
                   chatRequestId, ttsRequestId, memories, chatResp>>

\* The voice tier answers HTTP 200 with a JSON body (route.ts:312-323).
ChatVoiceJson ==
    /\ chatPc = "voice"
    /\ UNCHANGED notChatVars
    /\ calls' = Append(calls, "voice")
    /\ \E rid \in {Undef, VoiceRid} :
          /\ voiceRequestId' = rid
          /\ requestId' = Coalesce(rid, requestId)
    /\ \E json \in ChatJsons, audio \in {Undef, Empty, AudioB64} :
          /\ textOut' = clampText(VoiceAssistantText(json), MaxAssistantText)
          /\ IF VoiceTextRejected(textOut')
             THEN /\ VoiceCaught(IF textOut' = Empty THEN "empty" ELSE "ok")
                  /\ UNCHANGED assistantAudioBase64
             ELSE /\ voiceOutcome' = IF textOut' = Empty THEN "empty" ELSE "ok"
                  /\ assistantAudioBase64' = audio
                  /\ chatPc' = "tts"
                  /\ UNCHANGED upstreamMode
    /\ UNCHANGED <<chatReq, textOutcome, ttsOutcome, chatRequestId, ttsRequestId,
                   memories, chatResp>>

\* zhipuChatCompletions throws: fetch fails, non-2xx, unparsable body.  The
\* error leaves the handler through the outer catch (route.ts:335, 443).
ChatTextFails ==
    /\ chatPc = "text"
    /\ UNCHANGED notChatVars
    /\ calls' = Append(calls, "text")
    /\ \E outcome \in {"neterr", "non2xx", "badjson"} : textOutcome' = outcome
    /\ ChatThrow(requestId)
    /\ UNCHANGED <<chatReq, voiceOutcome, ttsOutcome, textOut, assistantAudioBase64,
                   upstreamMode, voiceRequestId, chatRequestId, ttsRequestId,
                   requestId, memories>>

\* zhipuChatCompletions gets HTTP 200 with a JSON body (route.ts:335-360).
ChatTextJson ==
    /\ chatPc = "text"
    /\ UNCHANGED notChatVars
    /\ calls' = Append(calls, "text")
    /\ \E data \in ChatJsons, rid \in {Undef, ChatRid} :
          IF ChatContentRejected(ChatContent(data))
          THEN /\ textOutcome' = "empty"
               /\ ChatThrow(requestId)
               /\ UNCHANGED <<textOut, chatRequestId, requestId>>
          ELSE /\ textOutcome' = "ok"
               /\ chatRequestId' = Coalesce(rid, chatRequestId)
               /\ requestId' = Coalesce(chatRequestId', requestId)
               /\ textOut' = clampText(Trim(ChatContent(data)), MaxAssistantText)
               /\ chatPc' = "tts"
               /\ UNCHANGED chatResp
    /\ UNCHANGED <<chatReq, voiceOutcome, ttsOutcome, assistantAudioBase64,
                   upstreamMode, voiceRequestId, ttsRequestId, memories>>

\* No TTS call: the reply already carries audio, or no TTS model is configured
\* (route.ts:363-372).
ChatTtsSkipped ==
    /\ chatPc = "tts"
    /\ UNCHANGED notChatVars
    /\ ~NeedsTts(assistantAudioBase64) \/ chatReq.ttsModel = Empty
    /\ ttsOutcome' = IF ~NeedsTts(assistantAudioBase64) THEN "has_audio" ELSE "no_model"
    /\ chatPc' = "log"
    /\ UNCHANGED <<chatReq, voiceOutcome, textOutcome, textOut, assistantAudioBase64,
                   upstreamMode, voiceRequestId, chatRequestId, ttsRequestId,
                   requestId, calls, memories, chatResp>>

\* zhipuTts throws: fetch fails, non-2xx, or a JSON body with no audio.  The
\* call is not wrapped in a try of its own (route.ts:373), so the error leaves
\* the handler through the outer catch.
ChatTtsFails ==
    /\ chatPc = "tts"
    /\ UNCHANGED notChatVars
    /\ NeedsTts(assistantAudioBase64) /\ chatReq.ttsModel # Empty
    /\ calls' = Append(calls, "tts")
    /\ \E outcome \in {"neterr", "non2xx", "noaudio"} : ttsOutcome' = outcome
    /\ ChatThrow(requestId)
    /\ UNCHANGED <<chatReq, voiceOutcome, textOutcome, textOut, assistantAudioBase64,
                   upstreamMode, voiceRequestId, chatRequestId, ttsRequestId,
                   requestId, memories>>

\* zhipuTts returns audio (route.ts:373-391).  A raw audio/ body is passed on
\* as it is, also when it is empty; a JSON body only with non-empty audio.
ChatTtsOk ==
    /\ chatPc = "tts"
    /\ UNCHANGED notChatVars
    /\ NeedsTts(assistantAudioBase64) /\ chatReq.ttsModel # Empty
    /\ calls' = Append(calls, "tts")
    /\ ttsOutcome' = "ok"
    /\ \E audio \in {Empty, AudioB64}, rid \in {Undef, TtsRid} :
          /\ assistantAudioBase64' = audio
          /\ ttsRequestId' = Coalesce(rid, ttsRequestId)
          /\ requestId' = Coalesce(ttsRequestId', requestId)
    /\ chatPc' = "log"
    /\ UNCHANGED <<chatReq, voiceOutcome, textOutcome, textOut, upstreamMode,
                   voiceRequestId, chatRequestId, memories, chatResp>>

\* The handler's end if a failed appendMemory were not caught: the turn
\* fails with 500.
ChatRespondOrThrow ==
    /\ chatPc = "log"
    /\ UNCHANGED notChatVars
    /\ \E appended \in BOOLEAN :
          /\ memories' = IF appended THEN memories + 1 ELSE memories
          /\ chatResp' = IF appended
                          THEN OkResponse(chatReq, textOut, assistantAudioBase64,
                                          requestId, upstreamMode)
                          ELSE ErrResponse(500, requestId)
    /\ chatPc' = "done"
    /\ UNCHANGED <<chatReq, voiceOutcome, textOutcome, ttsOutcome, textOut,
                   assistantAudioBase64, upstreamMode, voiceRequestId,
                   chatRequestId, ttsRequestId, requestId, calls>>

\* appendMemory, whose failure is ignored, and the ok:true response
\* (route.ts:403-442).
ChatRespond ==
    /\ chatPc = "log"
    /\ UNCHANGED notChatVars
    /\ \E appended \in BOOLEAN :
          memories' = IF appended THEN memories + 1 ELSE memories
    /\ chatResp' = OkResponse(chatReq, textOut, assistantAudioBase64, requestId,
                              upstreamMode)
    /\ chatPc' = "done"
    /\ UNCHANGED <<chatReq, voiceOutcome, textOutcome, ttsOutcome, textOut,
                   assistantAudioBase64, upstreamMode, voiceRequestId,
                   chatRequestId, ttsRequestId, requestId, calls>>

\* The steps of a handler that has accepted its request.
ChatHandlerStep ==
    \/ ChatVoiceNoResponse
    \/ ChatVoiceBadResponse
    \/ ChatVoiceJson
    \/ ChatTextFails
    \/ ChatTextJson
    \/ ChatTtsSkipped
    \/ ChatTtsFails
    \/ ChatTtsOk
    \/ ChatRespond

ChatNext ==
    \/ \E req \in ChatRequests : ChatReceive(req)
    \/ ChatVoiceNoResponse
    \/ ChatVoiceBadResponse
    \/ ChatVoiceJson
    \/ ChatTextFails
    \/ ChatTextJson
    \/ ChatTtsSkipped
    \/ ChatTtsFails
    \/ ChatTtsOk
    \/ ChatRespond

-----------------------------------------------------------------------------
(* Properties of the chat cascade *)

VoiceFailed == voiceOutcome \in {"neterr", "timeout", "non2xx", "badjson", "empty"}
TextFailed == textOutcome \in {"neterr", "non2xx", "badjson", "empty"}
TtsFailed == ttsOutcome \in {"neterr", "non2xx", "noaudio"}
Called(tier) == \E i \in 1..Len(calls) : calls[i] = tier

\* C1: when the voice tier answers HTTP 200 with no non-empty assistant text, the
\* text tier is invoked next; ok:true is never returned with an empty
\* assistantText, and TTS is never reached unless the text tier produced the text.
C1_EmptyVoiceTextFallsToTextTier ==
    /\ voiceOutcome = "empty" =>
          /\ chatPc = "text" \/ (Len(calls) >= 2 /\ calls[2] = "text")
          /\ (chatPc \in {"tts", "log"} \/ Called("tts")) =>
                (textOutcome = "ok" /\ textOut # Empty)
    /\ (chatResp.kind = "json" /\ chatResp.ok) => chatResp.assistantText # Empty

C1_Witness ==
    /\ chatPc = "done"
    /\ voiceOutcome = "empty"
    /\ calls = <<"voice", "text", "tts">>
    /\ chatResp.ok
    /\ chatResp.assistantText = Hi

\* C2: a failure of the TTS attempt never blocks the turn: the handler still
\* returns ok:true with the assistant text and no audio.
C2_TtsFailureLeavesTextOnlyReply ==
    (chatPc = "done" /\ TtsFailed) =>
        /\ chatResp.ok
        /\ chatResp.assistantText = textOut
        /\ Falsy(chatResp.assistantAudioBase64)

\* C3: with a valid request, whenever the voice tier fails the text tier is
\* attempted before any response is produced, and ok:false is returned only
\* when the text tier also fails.
C3_VoiceFailureAloneNeverFailsTurn ==
    (chatPc = "done" /\ VoiceFailed) =>
        /\ Called("text")
        /\ ~chatResp.ok => TextFailed

\* C4 as stated: when the voice tier succeeds with non-empty text no further
\* tier (neither the text model nor TTS) is invoked for the turn.
C4_VoiceSuccessCallsNothingElse ==
    voiceOutcome = "ok" => calls = <<"voice">>

\* C4 as amended: when the voice tier succeeds with non-empty text the text tier
\* is never invoked, and the only further call is one TTS call, made only when
\* the voice reply carried no embedded audio and a TTS model is configured.
C4_VoiceSuccessCallsAtMostTts ==
    [][(voiceOutcome' = "ok" /\ voiceOutcome = "ok" /\ calls' # calls) =>
          /\ chatPc = "tts"
          /\ Falsy(assistantAudioBase64)
          /\ chatReq.ttsModel # Empty
          /\ calls = <<"voice">>
          /\ calls' = <<"voice", "tts">>]_vars

C4_Witness ==
    /\ chatPc = "done"
    /\ voiceOutcome = "ok"
    /\ calls = <<"voice", "tts">>
    /\ chatResp.ok

\* C5: every turn makes at most one voice, one text and one TTS call, in that
\* order and with no retries; an accepted request always has a next step, and
\* a finished handler has produced a response.
C5_BoundedCascadeAlwaysResponds ==
    /\ calls \in {<<>>, <<"voice">>, <<"voice", "text">>, <<"voice", "tts">>,
                  <<"voice", "text", "tts">>}
    /\ chatPc \in {"voice", "text", "tts", "log"} => ENABLED ChatHandlerStep
    /\ chatPc = "done" => (chatResp.kind = "json" /\ chatResp.ok \in BOOLEAN)
    /\ chatPc \in {"idle", "voice", "text", "tts", "log", "done"}

C5_Witness ==
    /\ chatPc = "done"
    /\ calls = <<"voice", "text", "tts">>
    /\ chatResp.ok
    /\ ~Falsy(chatResp.assistantAudioBase64)

\* C26: the x-haipi-upstream header of an ok:true answer is "voice" exactly
\* when the voice tier gave the reply's non-empty text and the text tier was
\* not called, and "chat_fallback" exactly when the text tier was called, in
\* which case the text tier gave the text.
C26_UpstreamHeaderNamesTextTier ==
    (chatPc = "done" /\ chatResp.kind = "json" /\ chatResp.ok) =>
        /\ chatResp.upstream \in {"voice", "chat_fallback"}
        /\ chatResp.upstream = "voice" <=>
              (voiceOutcome = "ok" /\ calls[1] = "voice" /\ ~Called("text"))
        /\ chatResp.upstream = "chat_fallback" <=>
              (Called("text") /\ textOutcome = "ok")
        /\ chatResp.assistantText # Empty

\* A turn answered by the text tier after the voice tier failed.
C26_Witness ==
    /\ chatPc = "done"
    /\ chatResp.kind = "json" /\ chatResp.ok
    /\ chatResp.upstream = "chat_fallback"
    /\ VoiceFailed
    /\ calls[2] = "text"

\* C27: after a voice timeout, a text reply and a successful TTS call, the
\* answer is ok:true with text and audio, and its requestId is the request
\* id of the TTS attempt.
C27_RequestIdIsTtsAttempt ==
    (chatPc = "done" /\ voiceOutcome = "timeout" /\ textOutcome = "ok"
                     /\ ttsOutcome = "ok") =>
        /\ chatResp.ok
        /\ chatResp.assistantText # Empty
        /\ ~Falsy(chatResp.assistantAudioBase64)
        /\ chatResp.requestId # Undef
        /\ chatResp.requestId = ttsRequestId

-----------------------------------------------------------------------------
(* String passes shared by the sanitizers and the fallback stories *)

MaxSentences == 10

WsSet == {9, 10, 11, 12, 13, 32, 160, 5760, 8232, 8233, 8239, 8287, 12288, 65279}
             \cup (8192..8202)

\* A sequence with the code units of cls removed: s.replace(/[cls]/g, "")
Without(s, cls) == SelectSeq(s, LAMBDA c : c \notin cls)

\* s.replace(/[from]/g, to)
MapTo(s, from, to) == [i \in 1..Len(s) |-> IF s[i] \in from THEN to ELSE s[i]]

\* The indices of s, in order
Indices(s) == [i \in 1..Len(s) |-> i]

\* First and last index of the maximal run of cls code units that holds s[i].
RunStart(s, cls, i) ==
    CHOOSE a \in 1..i : /\ \A k \in a..i : s[k] \in cls
                        /\ a = 1 \/ s[a - 1] \notin cls

RunEnd(s, cls, i) ==
    CHOOSE b \in i..Len(s) : /\ \A k \in i..b : s[k] \in cls
                             /\ b = Len(s) \/ s[b + 1] \notin cls

\* s.replace(/[cls]{min,}/g, r): every maximal run of at least min code units of
\* cls becomes the single code unit r.
CollapseRuns(s, cls, min, r) ==
    LET replaced(i) == /\ s[i] \in cls
                       /\ RunEnd(s, cls, i) - RunStart(s, cls, i) + 1 >= min
        kept == SelectSeq(Indices(s),
                          LAMBDA i : ~replaced(i) \/ RunStart(s, cls, i) = i)
    IN  [k \in 1..Len(kept) |-> IF replaced(kept[k]) THEN r ELSE s[kept[k]]]

\* s.replace(/\r\n/g, "\n")
CrLfToLf(s) ==
    LET kept == SelectSeq(Indices(s),
                          LAMBDA i : ~(s[i] = 13 /\ i < Len(s) /\ s[i + 1] = 10))
    IN  [k \in 1..Len(kept) |-> s[kept[k]]]

\* s.split(sep) for a one-unit separator: "" splits into one empty piece.
RECURSIVE Split(_, _)
Split(s, sep) ==
    IF \A i \in 1..Len(s) : s[i] # sep THEN <<s>>
    ELSE LET k == CHOOSE i \in 1..Len(s) :
                      s[i] = sep /\ \A j \in 1..(i - 1) : s[j] # sep
         IN  <<SubSeq(s, 1, k - 1)>> \o Split(SubSeq(s, k + 1, Len(s)), sep)

\* x.replace(/c+$/g, "")
RECURSIVE StripTrailing(_, _)
StripTrailing(x, c) ==
    IF x # <<>> /\ x[Len(x)] = c THEN StripTrailing(SubSeq(x, 1, Len(x) - 1), c) ELSE x

\* pieces.join(sep)
RECURSIVE Join(_, _)
Join(pieces, sep) ==
    IF pieces = <<>> THEN <<>>
    ELSE IF Len(pieces) = 1 THEN pieces[1]
    ELSE pieces[1] \o sep \o Join(Tail(pieces), sep)

\* .filter((x) => x.length > 0).slice(0, 10)
KeptSentences(pieces) ==
    LET nonEmpty == SelectSeq(pieces, LAMBDA x : Len(x) > 0)
    IN  SubSeq(nonEmpty, 1, IF Len(nonEmpty) < MaxSentences THEN Len(nonEmpty)
                            ELSE MaxSentences)

ZhStop == 12290
ZhComma == 65292
ZhQuestion == 65311
ZhBang == 65281
CjkRange == 19968..40959
EnLetters == (65..90) \cup (97..122)
EnSpace == 32
EnComma == 44
EnStop == 46
EnBang == 33
EnQuestion == 63

\* x.replace(/,commas+$/g, "") of the zh sentence map
ZhSentence(x) == StripTrailing(x, ZhComma)

\* sanitizeStrictZhStory
sanitizeStrictZhStory(story) ==
    LET s1 == Without(story, WsSet)
        s2 == MapTo(s1, {ZhQuestion, ZhBang}, ZhStop)
        s3 == SelectSeq(s2, LAMBDA c :
                  c \in CjkRange \/ c \in {ZhStop, ZhComma, ZhQuestion, ZhBang})
        s4 == MapTo(s3, {ZhQuestion, ZhBang}, ZhStop)
        pieces == Split(s4, ZhStop)
        sentences == KeptSentences([i \in 1..Len(pieces) |-> ZhSentence(pieces[i])])
    IN  IF Len(sentences) = 0 THEN <<>>
        ELSE Join(sentences, <<ZhStop>>) \o <<ZhStop>>

\* x.trim().replace(/,+$/g, "").trim() of the en sentence map
EnSentence(x) == Trim(StripTrailing(Trim(x), EnComma))

\* sanitizeStrictEnglishStory
sanitizeStrictEnglishStory(story) ==
    LET s0 == CrLfToLf(story)
        s1 == Trim(CollapseRuns(s0, WsSet, 1, EnSpace))
        s2 == SelectSeq(s1, LAMBDA c :
                  c \in EnLetters \/ c \in {EnSpace, EnComma, EnStop, EnBang, EnQuestion})
        s3 == MapTo(s2, {EnBang, EnQuestion}, EnStop)
        s4 == Trim(CollapseRuns(s3, WsSet, 2, EnSpace))
        s5 == Trim(CollapseRuns(s4, {EnComma}, 2, EnComma))
        pieces == Split(s5, EnStop)
        sentences == KeptSentences([i \in 1..Len(pieces) |-> EnSentence(pieces[i])])
    IN  IF Len(sentences) = 0 THEN <<>>
        ELSE Join(sentences, <<EnStop, EnSpace>>) \o <<EnStop>>

sanitize(lang, story) ==
    IF lang = "zh" THEN sanitizeStrictZhStory(story)
    ELSE sanitizeStrictEnglishStory(story)

-----------------------------------------------------------------------------
(* The sanitizers applied to bounded raw texts *)

MaxRawLen == 4
MaxRepeat == 11

\* Code units a raw zh story is drawn from: an ideograph, the four zh marks,
\* a blank and a Latin letter.
ZhRawUnits == {19968, ZhStop, ZhComma, ZhQuestion, ZhBang, 32, 97}

\* Code units a raw en story is drawn from: a letter, blank, comma, the
\* sentence marks, a line feed and a digit.
EnRawUnits == {97, EnSpace, EnComma, EnStop, EnBang, 10, 55}

StringsUpTo(units, n) == UNION {[1..k -> units] : k \in 0..n}

RECURSIVE Repeat(_, _)
Repeat(u, k) == IF k = 0 THEN <<>> ELSE u \o Repeat(u, k - 1)

\* Every short text, and long texts made of one or two units repeated, which
\* have more than MaxSentences sentences.
RawTexts(units) ==
    StringsUpTo(units, MaxRawLen)
        \cup {Repeat(u, k) : u \in StringsUpTo(units, 2), k \in 1..MaxRepeat}

SanIdle ==
    /\ sanPc = "raw"
    /\ sanLang = "zh"
    /\ sanRaw = <<>>
    /\ sanOut = <<>>
    /\ sanAgain = <<>>

SanInit ==
    /\ sanPc = "raw"
    /\ sanLang \in {"zh", "en"}
    /\ sanRaw \in RawTexts(IF sanLang = "zh" THEN ZhRawUnits ELSE EnRawUnits)
    /\ sanOut = <<>>
    /\ sanAgain = <<>>

notSanVars == <<chatVars, fbVars, genVars, toyVars, playVars, wavVars,
    extVars,
    storyPageVars,
    convVars,
    memVars,
    mimeVars>>

\* The route sanitizes the upstream text.
Sanitize ==
    /\ sanPc = "raw"
    /\ sanOut' = sanitize(sanLang, sanRaw)
    /\ sanPc' = "once"
    /\ UNCHANGED <<sanLang, sanRaw, sanAgain, notSanVars>>

\* The sanitizer applied to its own output.
SanitizeAgain ==
    /\ sanPc = "once"
    /\ sanAgain' = sanitize(sanLang, sanOut)
    /\ sanPc' = "twice"
    /\ UNCHANGED <<sanLang, sanRaw, sanOut, notSanVars>>

SanNext ==
    \/ Sanitize
    \/ SanitizeAgain

-----------------------------------------------------------------------------
(* The fallback stories: fallbackStrictZhStory, fallbackStrictEnglishStory *)

\* The running sum of stableChoice: acc = (acc + seed.charCodeAt(i)) >>> 0.
\* A seed has at most 200 code units (202 with the "-s" suffix), each below
\* 65536, so the sum stays below 2^32 and the unsigned wrap never applies.
RECURSIVE CodeSum(_, _)
CodeSum(seed, acc) ==
    IF seed = <<>> THEN acc ELSE CodeSum(Tail(seed), acc + Head(seed))

\* stableChoice
stableChoice(seed, items) ==
    IF Len(items) = 0 THEN <<>> ELSE items[(CodeSum(seed, 0) % Len(items)) + 1]

\* seed.split("").reverse().join("")
Reverse(s) == [i \in 1..Len(s) |-> s[Len(s) + 1 - i]]

\* `${seed}-s`
SoundSeed(seed) == seed \o <<45, 115>>

\* A sentence count that wraps at six instead of five
FallbackCountWrapsLate(seed) ==
    LET n == 6 + (Len(seed) % 6)
    IN  IF n > 10 THEN 10 ELSE n

\* Math.max(6, Math.min(10, 6 + (seed.length % 5)))
FallbackCount(seed) ==
    LET n == 6 + (Len(seed) % 5)
        m == IF n < 10 THEN n ELSE 10
    IN  IF m > 6 THEN m ELSE 6

\* animals: bunny, bear, deer, kitten, puppy
ZhAnimals ==
    <<<<23567, 20820>>,
      <<23567, 29066>>,
      <<23567, 40575>>,
      <<23567, 29483>>,
      <<23567, 29399>>>>

\* items: magic leaf, little bell, coloured stone, bubble wand, star sticker
ZhItems ==
    <<<<39764, 27861, 21494>>,
      <<23567, 38083, 38107>>,
      <<24425, 33394, 30707>>,
      <<27873, 27873, 26834>>,
      <<26143, 26143, 36148>>>>

\* sounds
ZhSounds ==
    <<<<21886, 21886>>,
      <<21653, 22108>>,
      <<21628, 21628>>,
      <<21486, 21486>>,
      <<21719, 21862>>>>

\* The ten template sentences of the zh fallback story.
ZhLines(animal, item, s1) ==
    <<<<26862, 26519, 37324>> \o s1 \o <<21709, 12290>>,
      animal \o <<26377, 20010, 23567, 24895, 26395, 12290>>,
      <<23427, 24819, 25214, 21040>> \o item \o <<12290>>,
      <<23427, 36731, 36731, 36208, 36827, 26641, 24433, 37324, 12290>>,
      <<23567, 21160, 29289, 20204, 20063, 26469, 24110, 24537, 12290>>,
      <<23427, 20204, 25214, 21568, 25214, 19981, 20572, 12290>>,
      <<24573, 28982, 19968, 29255, 21494, 23376, 21457, 20809, 12290>>,
      item \o <<36339, 21040, 25163, 24515, 37324, 12290>>,
      <<22823, 23478, 31505, 24471, 22278, 22278, 30340, 12290>>,
      <<23427, 20204, 32422, 22909, 20877, 20882, 38505, 12290>>>>

\* Bunny, Bear, Deer, Kitten, Puppy
EnAnimals ==
    <<<<66, 117, 110, 110, 121>>,
      <<66, 101, 97, 114>>,
      <<68, 101, 101, 114>>,
      <<75, 105, 116, 116, 101, 110>>,
      <<80, 117, 112, 112, 121>>>>

\* magic leaf, tiny bell, colorful stone, bubble wand, star sticker
EnItems ==
    <<<<109, 97, 103, 105, 99, 32, 108, 101, 97, 102>>,
      <<116, 105, 110, 121, 32, 98, 101, 108, 108>>,
      <<99, 111, 108, 111, 114, 102, 117, 108, 32, 115, 116, 111, 110, 101>>,
      <<98, 117, 98, 98, 108, 101, 32, 119, 97, 110, 100>>,
      <<115, 116, 97, 114, 32, 115, 116, 105, 99, 107, 101, 114>>>>

\* tweet tweet, rumble, whoosh, ding ding, swish swish
EnSounds ==
    <<<<116, 119, 101, 101, 116, 32, 116, 119, 101, 101, 116>>,
      <<114, 117, 109, 98, 108, 101>>,
      <<119, 104, 111, 111, 115, 104>>,
      <<100, 105, 110, 103, 32, 100, 105, 110, 103>>,
      <<115, 119, 105, 115, 104, 32, 115, 119, 105, 115, 104>>>>

\* The ten template sentences of the en fallback story.
EnLines(animal, item, s1, last) ==
    <<
      \* In the forest, ${s1}.
      <<
        73, 110, 32, 116, 104, 101, 32, 102, 111, 114, 101, 115, 116, 44, 32>> \o s1 \o <<46>>,
      \* ${animal} has a small wish.
      animal \o <<
        32, 104, 97, 115, 32, 97, 32, 115, 109, 97, 108, 108, 32, 119, 105, 115, 104, 46>>,
      \* ${animal} wants to find a ${item}.
      animal \o <<
        32, 119, 97, 110, 116, 115, 32, 116, 111, 32, 102, 105, 110, 100, 32, 97, 32>> \o item \o <<46>>,
      \* ${animal} walks softly under the trees.
      animal \o <<
        32, 119, 97, 108, 107, 115, 32, 115, 111, 102, 116, 108, 121, 32, 117, 110, 100, 101,
        114, 32, 116, 104, 101, 32, 116, 114, 101, 101, 115, 46>>,
      \* Little animal friends come to help.
      <<
        76, 105, 116, 116, 108, 101, 32, 97, 110, 105, 109, 97, 108, 32, 102, 114, 105, 101,
        110, 100, 115, 32, 99, 111, 109, 101, 32, 116, 111, 32, 104, 101, 108, 112, 46>>,
      \* They look and look with happy steps.
      <<
        84, 104, 101, 121, 32, 108, 111, 111, 107, 32, 97, 110, 100, 32, 108, 111, 111, 107,
        32, 119, 105, 116, 104, 32, 104, 97, 112, 112, 121, 32, 115, 116, 101, 112, 115, 46>>,
      \* A leaf suddenly glows bright.
      <<
        65, 32, 108, 101, 97, 102, 32, 115, 117, 100, 100, 101, 110, 108, 121, 32, 103, 108,
        111, 119, 115, 32, 98, 114, 105, 103, 104, 116, 46>>,
      \* The ${item} lands in a warm paw.
      <<84, 104, 101, 32>> \o item \o <<
        32, 108, 97, 110, 100, 115, 32, 105, 110, 32, 97, 32, 119, 97, 114, 109, 32, 112, 97,
        119, 46>>,
      \* Everyone laughs in a round little circle.
      <<
        69, 118, 101, 114, 121, 111, 110, 101, 32, 108, 97, 117, 103, 104, 115, 32, 105, 110,
        32, 97, 32, 114, 111, 117, 110, 100, 32, 108, 105, 116, 116, 108, 101, 32, 99, 105,
        114, 99, 108, 101, 46>>,
      \* the route's closing sentence
      last>>

\* "They wave and plan the next adventure." (generate-bilingual)
EnLastLine ==
    <<
        84, 104, 101, 121, 32, 119, 97, 118, 101, 32, 97, 110, 100, 32, 112, 108, 97, 110, 32,
        116, 104, 101, 32, 110, 101, 120, 116, 32, 97, 100, 118, 101, 110, 116, 117, 114, 101,
        46>>

\* "They wave and plan a new adventure." (generate-en)
EnLastLineLegacy ==
    <<
        84, 104, 101, 121, 32, 119, 97, 118, 101, 32, 97, 110, 100, 32, 112, 108, 97, 110, 32,
        97, 32, 110, 101, 119, 32, 97, 100, 118, 101, 110, 116, 117, 114, 101, 46>>

fallbackStrictZhStory(seed) ==
    LET animal == stableChoice(seed, ZhAnimals)
        item == stableChoice(Reverse(seed), ZhItems)
        s1 == stableChoice(SoundSeed(seed), ZhSounds)
        lines == ZhLines(animal, item, s1)
    IN  Join(SubSeq(lines, 1, FallbackCount(seed)), <<>>)

EnFallbackWith(seed, last) ==
    LET animal == stableChoice(seed, EnAnimals)
        item == stableChoice(Reverse(seed), EnItems)
        s1 == stableChoice(SoundSeed(seed), EnSounds)
        lines == EnLines(animal, item, s1, last)
    IN  Join(SubSeq(lines, 1, FallbackCount(seed)), <<EnSpace>>)

\* fallbackStrictEnglishStory of /api/generate-bilingual
fallbackStrictEnglishStory(seed) == EnFallbackWith(seed, EnLastLine)

\* fallbackStrictEnglishStory of /api/generate-en
fallbackStrictEnglishStoryLegacy(seed) == EnFallbackWith(seed, EnLastLineLegacy)

fallback(seed, lang) ==
    IF lang = "zh" THEN fallbackStrictZhStory(seed) ELSE fallbackStrictEnglishStory(seed)

MaxSeedLen == 5
MaxSeedChars == 200

\* Code units a seed is drawn from: a letter, an ideograph, the first half of
\* an emoji, and a blank.
SeedUnits == {97, 19968, 55357, 32}

\* The seeds a route works with: clampText(seedRaw, 200), not empty.
Seeds ==
    {clampText(raw, MaxSeedChars) : raw \in StringsUpTo(SeedUnits, MaxSeedLen)} \ {<<>>}

FbIdle ==
    /\ fbPc = "seed"
    /\ fbLang = "zh"
    /\ fbSeed = <<97>>
    /\ fbStory = <<>>

FbInit ==
    /\ fbPc = "seed"
    /\ fbLang \in {"zh", "en"}
    /\ fbSeed \in Seeds
    /\ fbStory = <<>>

\* The route substitutes the fallback story.
Fallback ==
    /\ fbPc = "seed"
    /\ fbStory' = fallback(fbSeed, fbLang)
    /\ fbPc' = "done"
    /\ UNCHANGED <<fbLang, fbSeed, chatVars, sanVars, genVars, toyVars, playVars,
                   wavVars,
                   extVars,
                   storyPageVars,
                   convVars,
                   memVars,
                   mimeVars>>

FbNext == Fallback

-----------------------------------------------------------------------------
(* The ending rewrite: rewriteTemplateEnding, rewriteEnglishTemplateEnding *)

EndsWith(s, suffix) ==
    Len(s) >= Len(suffix) /\ SubSeq(s, Len(s) - Len(suffix) + 1, Len(s)) = suffix

DropEnd(s, n) == SubSeq(s, 1, Len(s) - n)

\* s with its longest tail of cls code units removed
RECURSIVE TrimEndOf(_, _)
TrimEndOf(s, cls) ==
    IF s # <<>> /\ s[Len(s)] \in cls THEN TrimEndOf(DropEnd(s, 1), cls) ELSE s

\* [。.!！]
ZhTailMarks == {ZhStop, EnStop, EnBang, ZhBang}

\* [.!?]
EnTailMarks == {EnStop, EnBang, EnQuestion}

\* The alternatives of sleepyTailRe: good night, have a sweet dream, fall into
\* dreamland, go to sleep, close your eyes, sweet dreams, sleep well, off to bed.
ZhSleepyTails ==
    <<
      <<26202, 23433>>,
      <<20570, 19968, 20010, 29980, 29980, 30340, 26790>>,
      <<36827, 20837, 26790, 20065>>,
      <<30561, 21543>>,
      <<38381, 19978, 30524>>,
      <<20570, 20010, 32654, 26790>>,
      <<23433, 24515, 30561>>,
      <<24555, 21435, 30561>>>>

\* "good night my baby" and "have a sweet dream", the two halves of templateRe
ZhTemplateHead == <<26202, 23433, 25105, 30340, 23453, 36125>>
ZhTemplateDream == <<20570, 19968, 20010, 29980, 29980, 30340, 26790>>

\* The five alternative endings of rewriteTemplateEnding.
ZhEndings ==
    <<
      <<22909, 21862, 25925, 20107, 20808, 25910, 36827, 21475, 34955, 25105, 20204, 32487,
        32493, 21435, 25506, 38505, 12290>>,
      <<35874, 35874, 20320, 21548, 21040, 36825, 37324, 19979, 19968, 27425, 25105, 20204,
        20877, 36935, 35265, 26032, 26379, 21451, 12290>>,
      <<39764, 27861, 28779, 33457, 39134, 36208, 20102, 25105, 20204, 20063, 25381, 25381,
        25163, 35828, 20877, 35265, 12290>>,
      <<25925, 20107, 20808, 20572, 22312, 36825, 37324, 23567, 20249, 20276, 20204, 19968,
        36215, 24320, 24320, 24515, 24515, 22238, 23478, 12290>>,
      <<22914, 26524, 20320, 24895, 24847, 25105, 20204, 19979, 27425, 20877, 21435, 26862,
        26519, 37324, 25214, 23453, 34255, 12290>>>>

\* good night, sweet dreams, go to sleep, close your eyes, sleep tight
EnSleepyTails ==
    <<
      <<103, 111, 111, 100, 32, 110, 105, 103, 104, 116>>,
      <<115, 119, 101, 101, 116, 32, 100, 114, 101, 97, 109, 115>>,
      <<103, 111, 32, 116, 111, 32, 115, 108, 101, 101, 112>>,
      <<99, 108, 111, 115, 101, 32, 121, 111, 117, 114, 32, 101, 121, 101, 115>>,
      <<115, 108, 101, 101, 112, 32, 116, 105, 103, 104, 116>>>>

\* The five alternative endings of rewriteEnglishTemplateEnding:
\*   Now we wave and plan the next adventure.
\*   We smile and promise to explore again soon.
\*   The little friends giggle and walk home together.
\*   The magic sparkles fade, and we say see you next time.
\*   The story pauses here, and our adventure can continue later.
EnEndings ==
    <<
      <<78, 111, 119, 32, 119, 101, 32, 119, 97, 118, 101, 32, 97, 110, 100, 32, 112, 108,
        97, 110, 32, 116, 104, 101, 32, 110, 101, 120, 116, 32, 97, 100, 118, 101, 110,
        116, 117, 114, 101, 46>>,
      <<87, 101, 32, 115, 109, 105, 108, 101, 32, 97, 110, 100, 32, 112, 114, 111, 109,
        105, 115, 101, 32, 116, 111, 32, 101, 120, 112, 108, 111, 114, 101, 32, 97, 103,
        97, 105, 110, 32, 115, 111, 111, 110, 46>>,
      <<84, 104, 101, 32, 108, 105, 116, 116, 108, 101, 32, 102, 114, 105, 101, 110, 100,
        115, 32, 103, 105, 103, 103, 108, 101, 32, 97, 110, 100, 32, 119, 97, 108, 107, 32,
        104, 111, 109, 101, 32, 116, 111, 103, 101, 116, 104, 101, 114, 46>>,
      <<84, 104, 101, 32, 109, 97, 103, 105, 99, 32, 115, 112, 97, 114, 107, 108, 101, 115,
        32, 102, 97, 100, 101, 44, 32, 97, 110, 100, 32, 119, 101, 32, 115, 97, 121, 32,
        115, 101, 101, 32, 121, 111, 117, 32, 110, 101, 120, 116, 32, 116, 105, 109, 101,
        46>>,
      <<84, 104, 101, 32, 115, 116, 111, 114, 121, 32, 112, 97, 117, 115, 101, 115, 32,
        104, 101, 114, 101, 44, 32, 97, 110, 100, 32, 111, 117, 114, 32, 97, 100, 118, 101,
        110, 116, 117, 114, 101, 32, 99, 97, 110, 32, 99, 111, 110, 116, 105, 110, 117,
        101, 32, 108, 97, 116, 101, 114, 46>>>>

\* What stands before the match of /(alt1|alt2|...)[marks]*$/ in s, or Undef
\* when s does not match.  No alternative is a suffix of another, so at most
\* one matches.
BeforeTail(base, tails) ==
    IF \E i \in 1..Len(tails) : EndsWith(base, tails[i])
    THEN LET i == CHOOSE j \in 1..Len(tails) : EndsWith(base, tails[j])
         IN  DropEnd(base, Len(tails[i]))
    ELSE Undef

\* sleepyTailRe of rewriteTemplateEnding
BeforeZhSleepyTail(s) == BeforeTail(TrimEndOf(s, ZhTailMarks), ZhSleepyTails)

\* templateRe of rewriteTemplateEnding: head, a zh or Latin comma, white space,
\* the dream clause, closing marks.
BeforeZhTemplate(s) ==
    LET base == TrimEndOf(s, ZhTailMarks)
        b2 == IF EndsWith(base, ZhTemplateDream)
              THEN TrimEndOf(DropEnd(base, Len(ZhTemplateDream)), WsSet) ELSE <<>>
        b3 == IF b2 # <<>> /\ b2[Len(b2)] \in {ZhComma, EnComma}
              THEN DropEnd(b2, 1) ELSE <<>>
    IN  IF EndsWith(b3, ZhTemplateHead) THEN DropEnd(b3, Len(ZhTemplateHead)) ELSE Undef

\* s.replace(re, "") for a pattern anchored at the end
ReplacedBy(s, before) == IF before = Undef THEN s ELSE before

\* rewriteTemplateEnding of /api/generate
rewriteTemplateEnding(story, seed) ==
    LET s == TrimEndOf(story, WsSet)
    IN  IF BeforeZhTemplate(s) = Undef /\ BeforeZhSleepyTail(s) = Undef THEN story
        ELSE LET s1 == ReplacedBy(s, BeforeZhTemplate(s))
                 s2 == ReplacedBy(s1, BeforeZhSleepyTail(s1))
                 without == TrimEndOf(s2, WsSet)
                 tail == stableChoice(seed, ZhEndings)
             IN  IF without = <<>> THEN tail
                 ELSE IF without[Len(without)] \in ZhTailMarks
                      THEN without \o tail
                      ELSE without \o <<ZhStop>> \o tail

\* The /i flag on ASCII letters
LowerCase(s) == [i \in 1..Len(s) |-> IF s[i] \in 65..90 THEN s[i] + 32 ELSE s[i]]

\* sleepyTailRe of rewriteEnglishTemplateEnding: clause, white space, marks
BeforeEnSleepyTail(s) ==
    LET base == TrimEndOf(TrimEndOf(s, EnTailMarks), WsSet)
        before == BeforeTail(LowerCase(base), EnSleepyTails)
    IN  IF before = Undef THEN Undef ELSE SubSeq(base, 1, Len(before))

\* rewriteEnglishTemplateEnding of /api/generate-en
rewriteEnglishTemplateEnding(story, seed) ==
    LET s == TrimEndOf(story, WsSet)
    IN  IF BeforeEnSleepyTail(s) = Undef THEN story
        ELSE LET without == TrimEndOf(BeforeEnSleepyTail(s), WsSet)
                 tail == stableChoice(seed, EnEndings)
             IN  IF without = <<>> THEN tail
                 ELSE IF without[Len(without)] \in EnTailMarks
                      THEN without \o <<EnSpace>> \o tail
                      ELSE without \o <<EnStop, EnSpace>> \o tail

-----------------------------------------------------------------------------
(* The generation routes: POST /api/generate-bilingual, /api/generate, /api/generate-en *)

MaxGenMemories == 2
MaxBilingualRaw == 900
MaxZhRaw == 700
MaxEnRaw == 900

\* Sample upstream stories: plain, nothing left after sanitizing, with a sleepy
\* ending, with the template ending, a sleepy clause alone, and ten sentences
\* followed by a sleepy clause.
ZhPlainStory == <<23567, 20820, 31505, 12290>>
ZhMessyStory == <<97, 65292, 12290>>
ZhSleepyStory == <<23567, 20820, 31505, 12290, 26202, 23433, 65281>>
ZhTemplateStory == <<23567, 20820, 31505, 26202, 23433, 25105, 30340, 23453, 36125, 65292, 32, 20570, 19968, 20010, 29980, 29980, 30340, 26790, 12290>>
ZhOnlySleepy == <<30561, 21543>>
ZhLongSleepyStory ==
    <<23567, 12290, 20820, 12290, 31505, 12290, 23567, 12290, 20820, 12290,
      31505, 12290, 23567, 12290, 20820, 12290, 31505, 12290, 23567, 12290,
      26202, 23433, 12290>>
EnPlainStory == <<66, 117, 110, 110, 121, 32, 104, 111, 112, 115, 46, 32, 66, 101, 97, 114, 32, 99, 108, 97, 112, 115, 33>>
EnMessyStory == <<55, 44, 32, 63>>
EnSleepyStory == <<66, 117, 110, 110, 121, 32, 104, 111, 112, 115, 46, 32, 71, 111, 111, 100, 32, 78, 105, 103, 104, 116, 32, 33>>
EnOnlySleepy == <<115, 108, 101, 101, 112, 32, 116, 105, 103, 104, 116>>

ZhRawStories ==
    {ZhPlainStory, ZhMessyStory, ZhSleepyStory, ZhTemplateStory, ZhOnlySleepy,
     ZhLongSleepyStory}
EnRawStories == {EnPlainStory, EnMessyStory, EnSleepyStory, EnOnlySleepy}

\* The seeds a client may post: none, blank, and seeds of several lengths.
GenSeedRaws ==
    {<<>>, <<32>>, <<97>>, <<32, 97, 19968>>, <<55357, 56832, 97>>,
     <<97, 115, 100, 102, 55357, 56832>>}

\* What the upstream returns as content to /api/generate-bilingual: a text that
\* is no JSON, a JSON array, or a JSON object whose storyZh and storyEn are
\* strings or not (Undef).
BilingualContents ==
    [json : {"malformed", "array", "object"},
     storyZh : {Undef} \cup ZhRawStories,
     storyEn : {Undef} \cup EnRawStories]

\* asRecord(safeJsonParse(content)) is an object, not undefined
IsRecord(content) == content.json = "object"

\* typeof rec?.storyZh === "string" ? rec.storyZh : ""
StringField(content, field) ==
    IF ~IsRecord(content) THEN <<>>
    ELSE IF content[field] = Undef THEN <<>> ELSE content[field]

\* A route that hands on the sanitizer's empty output
KeepSanitized(story, fb) == story

\* if (!story) story = fallback(seed)
OrFallback(story, fb) == IF story = <<>> THEN fb ELSE story

GenErr(status) == [kind |-> "json", ok |-> FALSE, status |-> status]

GenOk(story) ==
    [kind |-> "json", ok |-> TRUE, status |-> 200,
     storyZh |-> story.zh, storyEn |-> story.en]

NoStories == [zh |-> Undef, en |-> Undef]

GenIdle ==
    /\ genPc = "idle"
    /\ genRoute = "bilingual"
    /\ genSeed = <<>>
    /\ genUpstream = "none"
    /\ genRaw = NoStories
    /\ genSanitized = NoStories
    /\ genStory = NoStories
    /\ genMemories = 0
    /\ genResp = NoResp

notGenVars == <<chatVars, sanVars, fbVars, toyVars, playVars, wavVars,
    extVars,
    storyPageVars,
    convVars,
    memVars,
    mimeVars>>

\* A request arrives and its seed goes upstream untested.
GenReceiveUnvalidated(route, hasApiKey, seedRaw) ==
    /\ genPc \in {"idle", "done"}
    /\ genMemories < MaxGenMemories
    /\ genRoute' = route
    /\ genUpstream' = "none"
    /\ genRaw' = NoStories
    /\ genSanitized' = NoStories
    /\ genStory' = NoStories
    /\ IF ~hasApiKey
       THEN /\ genSeed' = <<>>
            /\ genPc' = "done"
            /\ genResp' = GenErr(500)
       ELSE /\ genSeed' = clampText(seedRaw, MaxSeedChars)
            /\ genPc' = "upstream"
            /\ genResp' = NoResp
    /\ UNCHANGED <<genMemories, notGenVars>>

\* A request arrives: env check, seed clamped and tested (generate-bilingual
\* route.ts:150-162).
GenReceive(route, hasApiKey, seedRaw) ==
    /\ genPc \in {"idle", "done"}
    /\ genMemories < MaxGenMemories
    /\ genRoute' = route
    /\ genUpstream' = "none"
    /\ genRaw' = NoStories
    /\ genSanitized' = NoStories
    /\ genStory' = NoStories
    /\ IF ~hasApiKey
       THEN /\ genSeed' = <<>>
            /\ genPc' = "done"
            /\ genResp' = GenErr(500)
       ELSE /\ genSeed' = clampText(seedRaw, MaxSeedChars)
            /\ IF genSeed' = <<>>
               THEN genPc' = "done" /\ genResp' = GenErr(400)
               ELSE genPc' = "upstream" /\ genResp' = NoResp
    /\ UNCHANGED <<genMemories, notGenVars>>

\* zhipuChatCompletions throws (fetch fails, times out, non-2xx, no content):
\* the outer catch answers 500 (generate-bilingual route.ts:210, 262-269).
GenUpstreamFails ==
    /\ genPc = "upstream"
    /\ \E outcome \in {"neterr", "timeout", "non2xx", "empty"} : genUpstream' = outcome
    /\ genPc' = "done"
    /\ genResp' = GenErr(500)
    /\ UNCHANGED <<genRoute, genSeed, genRaw, genSanitized, genStory, genMemories, notGenVars>>

\* /api/generate-bilingual: parse, sanitize both stories, fall back
\* (route.ts:229-237).
GenBilingualStories ==
    /\ genPc = "upstream"
    /\ genRoute = "bilingual"
    /\ genUpstream' = "ok"
    /\ \E content \in BilingualContents :
       \E zhRaw \in {clampText(StringField(content, "storyZh"), MaxBilingualRaw)},
          enRaw \in {clampText(StringField(content, "storyEn"), MaxBilingualRaw)} :
       \E zh \in {sanitizeStrictZhStory(zhRaw)}, en \in {sanitizeStrictEnglishStory(enRaw)} :
          /\ genRaw' = [zh |-> StringField(content, "storyZh"),
                        en |-> StringField(content, "storyEn")]
          /\ genSanitized' = [zh |-> zh, en |-> en]
          /\ genStory' = [zh |-> OrFallback(zh, fallbackStrictZhStory(genSeed)),
                          en |-> OrFallback(en, fallbackStrictEnglishStory(genSeed))]
    /\ genPc' = "log"
    /\ UNCHANGED <<genRoute, genSeed, genMemories, genResp, notGenVars>>

\* /api/generate: rewrite the ending, sanitize, fall back (route.ts:382-389).
GenZhStory ==
    /\ genPc = "upstream"
    /\ genRoute = "zh"
    /\ genUpstream' = "ok"
    /\ \E content \in ZhRawStories :
       \E clamped \in {clampText(CrLfToLf(content), MaxZhRaw)} :
       \E raw \in {rewriteTemplateEnding(clamped, genSeed)} :
       \E zh \in {sanitizeStrictZhStory(raw)} :
          /\ genRaw' = [zh |-> content, en |-> Undef]
          /\ genSanitized' = [zh |-> zh, en |-> Undef]
          /\ genStory' = [zh |-> OrFallback(zh, fallbackStrictZhStory(genSeed)),
                          en |-> Undef]
    /\ genPc' = "log"
    /\ UNCHANGED <<genRoute, genSeed, genMemories, genResp, notGenVars>>

\* /api/generate-en: rewrite the ending, sanitize, fall back (route.ts:197-204).
GenEnStory ==
    /\ genPc = "upstream"
    /\ genRoute = "en"
    /\ genUpstream' = "ok"
    /\ \E content \in EnRawStories :
       \E clamped \in {clampText(content, MaxEnRaw)} :
       \E raw \in {rewriteEnglishTemplateEnding(clamped, genSeed)} :
       \E en \in {sanitizeStrictEnglishStory(raw)} :
          /\ genRaw' = [zh |-> Undef, en |-> content]
          /\ genSanitized' = [zh |-> Undef, en |-> en]
          /\ genStory' = [zh |-> Undef,
                          en |-> OrFallback(en, fallbackStrictEnglishStoryLegacy(genSeed))]
    /\ genPc' = "log"
    /\ UNCHANGED <<genRoute, genSeed, genMemories, genResp, notGenVars>>

\* appendMemory, whose failure is ignored, and the ok:true response
\* (generate-bilingual route.ts:239-261).
GenRespond ==
    /\ genPc = "log"
    /\ \E appended \in BOOLEAN :
          genMemories' = IF appended THEN genMemories + 1 ELSE genMemories
    /\ genResp' = GenOk(genStory)
    /\ genPc' = "done"
    /\ UNCHANGED <<genRoute, genSeed, genUpstream, genRaw, genSanitized, genStory, notGenVars>>

GenNext ==
    \/ \E route \in {"bilingual", "zh", "en"}, hasApiKey \in BOOLEAN,
          seedRaw \in GenSeedRaws : GenReceive(route, hasApiKey, seedRaw)
    \/ GenUpstreamFails
    \/ GenBilingualStories
    \/ GenZhStory
    \/ GenEnStory
    \/ GenRespond

-----------------------------------------------------------------------------
(* The story toy page: hold-to-record, the recorder callbacks, chat turns *)

MaxRecorders == 2
MaxStopAttempts == 2
MaxChatTurns == 2
MaxChunks == 1

\* The stop watchdog waits 3500 ms, the hard stop 8500 ms: the model keeps only
\* that either timer may fire at any moment while it is pending.
RecorderIds == 1..MaxRecorders

NoRecorder == 0

\* A MediaRecorder made by startRecording, with the callbacks and the timer
\* that belong to it.  phase: "unused"; "starting" (startRecording awaits
\* getUserMedia); "recording" (recorder.state is not "inactive"); "stopping"
\* (stop() was called, the stop event is queued); "encoding" and "sending"
\* (onstop awaits the encoder, sendChat); "done".
\* decoded: "none", "ok", "failed" (audioBlobToWavBase64 threw) or
\* "unreadable" (it threw and blobToBase64 of the recording failed too);
\* sent, mime: what onstop handed to sendChat ("text", "wav", "original");
\* turn: the turn that sendChat call started, or 0.
UnusedRecorder ==
    [phase |-> "unused", hardStop |-> FALSE, aborted |-> FALSE, busySeen |-> FALSE,
     decoded |-> "none", sent |-> "none", mime |-> "none", turn |-> 0]

\* The recorder after its onstop called sendChat with the payload.
Submitted(rec, decoded, payload, mime) ==
    [rec EXCEPT !.phase = IF rec.busySeen THEN "done" ELSE "sending",
                !.decoded = decoded,
                !.sent = IF rec.busySeen THEN "none" ELSE payload,
                !.mime = IF rec.busySeen THEN "none" ELSE mime,
                !.turn = IF rec.busySeen THEN 0 ELSE nextTurn]

\* recorder && recorder.state !== "inactive", for the recorder the ref holds
ActiveRecorder ==
    mediaRecorderRef # NoRecorder /\ recorders[mediaRecorderRef].phase = "recording"

ToyIdle ==
    /\ chatBusy = FALSE
    /\ chatSending = FALSE
    /\ recording = FALSE
    /\ chatPhase = "idle"
    /\ chatMessages = <<>>
    /\ chatPressingRef = FALSE
    /\ abortRecordingRef = FALSE
    /\ recordStopAttemptRef = 0
    /\ recordStopWatchdogRef = 0
    /\ mediaRecorderRef = NoRecorder
    /\ streamRef = NoRecorder
    /\ recordedChunksRef = <<>>
    /\ recorders = [r \in RecorderIds |-> UnusedRecorder]
    /\ watchdogs = {}
    /\ requests = {}
    /\ nextTurn = 1
    /\ liveTracks = {}

notToyVars == <<chatVars, sanVars, fbVars, genVars, playVars, wavVars,
    extVars,
    storyPageVars,
    convVars,
    memVars,
    mimeVars>>

\* sendChat sending the request without recording the user's message first
SendChatUnrecorded(busySeen, from, behalf) ==
    IF busySeen
    THEN UNCHANGED <<chatBusy, chatMessages, requests, nextTurn>>
    ELSE /\ chatBusy' = TRUE
         /\ chatMessages' = chatMessages
         /\ requests' = requests \cup
                {[turn |-> nextTurn, from |-> from, behalf |-> behalf,
                  aborted |-> behalf # NoRecorder /\ recorders[behalf].aborted]}
         /\ nextTurn' = nextTurn + 1

\* sendChat up to its await of fetch, as called from a closure that sees
\* chatBusy as busySeen (the story is present).  from is the recorder whose
\* onstop awaits the call, or NoRecorder; behalf is the recorder whose recording
\* the turn stands for, and the request notes whether that recording had been
\* aborted when the turn was sent.
SendChat(busySeen, from, behalf) ==
    IF busySeen
    THEN UNCHANGED <<chatBusy, chatMessages, requests, nextTurn>>
    ELSE /\ chatBusy' = TRUE
         /\ chatMessages' = Append(chatMessages, [role |-> "user", turn |-> nextTurn])
         /\ requests' = requests \cup
                {[turn |-> nextTurn, from |-> from, behalf |-> behalf,
                  aborted |-> behalf # NoRecorder /\ recorders[behalf].aborted]}
         /\ nextTurn' = nextTurn + 1

\* A sendChat call may be made: the turn counter has room
CanSend(busySeen) == busySeen \/ nextTurn <= MaxChatTurns

\* window.clearTimeout(recordStopWatchdogRef.current)
ClearWatchdog(timers) == {w \in timers : w.attemptId # recordStopWatchdogRef}

\* beginHoldToRecord / beginHoldToRecordTouch, and startRecording up to its
\* first await.
Press ==
    /\ ~chatBusy /\ ~chatSending
    /\ chatPressingRef' = TRUE
    /\ IF recording \/ \A r \in RecorderIds : recorders[r].phase # "unused"
       THEN UNCHANGED recorders
       ELSE LET r == CHOOSE x \in RecorderIds :
                        /\ recorders[x].phase = "unused"
                        /\ \A y \in 1..(x - 1) : recorders[y].phase # "unused"
            IN  recorders' = [recorders EXCEPT ![r].phase = "starting",
                                               ![r].busySeen = chatBusy]
    /\ UNCHANGED <<chatBusy, chatSending, recording, chatPhase, chatMessages,
                   abortRecordingRef, recordStopAttemptRef, recordStopWatchdogRef,
                   mediaRecorderRef, streamRef, recordedChunksRef, watchdogs,
                   requests, nextTurn, liveTracks, notToyVars>>

\* startRecording after getUserMedia resolved: the recorder is made and started.
StartRecorder(r) ==
    /\ recorders[r].phase = "starting"
    /\ streamRef' = r
    /\ recordedChunksRef' = <<>>
    /\ abortRecordingRef' = FALSE
    /\ mediaRecorderRef' = r
    /\ recorders' = [recorders EXCEPT ![r].phase = "recording", ![r].hardStop = TRUE]
    /\ recording' = TRUE
    /\ chatPhase' = "recording"
    /\ UNCHANGED <<chatBusy, chatSending, chatMessages, chatPressingRef,
                   recordStopAttemptRef, recordStopWatchdogRef, watchdogs,
                   requests, nextTurn, notToyVars>>
    /\ liveTracks' = liveTracks \cup {r}

\* startRecording's catch: the microphone is refused.  The catch stops the
\* tracks of whatever stream the ref holds.
StartFails(r) ==
    /\ recorders[r].phase = "starting"
    /\ recorders' = [recorders EXCEPT ![r].phase = "done"]
    /\ recording' = FALSE
    /\ chatPhase' = "idle"
    /\ streamRef' = NoRecorder
    /\ UNCHANGED <<chatBusy, chatSending, chatMessages, chatPressingRef,
                   abortRecordingRef, recordStopAttemptRef, recordStopWatchdogRef,
                   mediaRecorderRef, recordedChunksRef, watchdogs, requests,
                   nextTurn, notToyVars>>
    /\ liveTracks' = liveTracks \ {streamRef}

\* startRecording's catch after getUserMedia resolved: new MediaRecorder or
\* recorder.start threw, and the catch stops the tracks of the stream the ref
\* holds, which is the one just acquired.
RecorderFails(r) ==
    /\ recorders[r].phase = "starting"
    /\ recorders' = [recorders EXCEPT ![r].phase = "done"]
    /\ recordedChunksRef' = <<>>
    /\ abortRecordingRef' = FALSE
    /\ recording' = FALSE
    /\ chatPhase' = "idle"
    /\ streamRef' = NoRecorder
    /\ UNCHANGED <<chatBusy, chatSending, chatMessages, chatPressingRef,
                   recordStopAttemptRef, recordStopWatchdogRef, mediaRecorderRef,
                   watchdogs, requests, nextTurn, liveTracks, notToyVars>>

\* recorder.ondataavailable with a non-empty chunk
DataAvailable(r) ==
    /\ recorders[r].phase \in {"recording", "stopping"}
    /\ Len(recordedChunksRef) < MaxChunks
    /\ recordedChunksRef' = Append(recordedChunksRef, r)
    /\ UNCHANGED <<chatBusy, chatSending, recording, chatPhase, chatMessages,
                   chatPressingRef, abortRecordingRef, recordStopAttemptRef,
                   recordStopWatchdogRef, mediaRecorderRef, streamRef, recorders,
                   watchdogs, requests, nextTurn, liveTracks, notToyVars>>

\* stopRecordingNow
StopRecordingNow ==
    /\ abortRecordingRef' = TRUE
    /\ chatSending' = FALSE
    /\ recorders' =
          [r \in RecorderIds |->
              IF r = mediaRecorderRef /\ recorders[r].phase \in {"recording", "stopping"}
              THEN [recorders[r] EXCEPT !.phase = "stopping", !.aborted = TRUE]
              ELSE recorders[r]]
    /\ streamRef' = NoRecorder
    /\ mediaRecorderRef' = NoRecorder
    /\ recordedChunksRef' = <<>>
    /\ recording' = FALSE
    /\ chatPhase' = "idle"
    /\ UNCHANGED <<chatBusy, chatMessages, recordStopAttemptRef,
                   recordStopWatchdogRef, watchdogs, requests, nextTurn, notToyVars>>
    /\ liveTracks' = liveTracks \ {streamRef}

\* endHoldToRecord after a short hold: cancel quietly.
ReleaseShort ==
    /\ chatPressingRef
    /\ recording \/ ActiveRecorder
    /\ chatPressingRef' = FALSE
    /\ StopRecordingNow

\* endHoldToRecord while startRecording still awaits the microphone: there is
\* neither a recording nor an active recorder, so only the ref is cleared.
ReleaseBeforeStart ==
    /\ chatPressingRef
    /\ ~(recording \/ ActiveRecorder)
    /\ chatPressingRef' = FALSE
    /\ UNCHANGED <<chatBusy, chatSending, recording, chatPhase, chatMessages,
                   abortRecordingRef, recordStopAttemptRef, recordStopWatchdogRef,
                   mediaRecorderRef, streamRef, recordedChunksRef, recorders,
                   watchdogs, requests, nextTurn, liveTracks, notToyVars>>

\* onPointerCancel, onTouchCancel, generate, resetAll, unmount
Cancel ==
    /\ chatPressingRef' = FALSE
    /\ StopRecordingNow

\* endHoldToRecord after a hold of 200 ms or more, stopRecordingAndSend with an
\* active recorder: the watchdog is armed and the recorder is asked to stop.
ReleaseStopsRecorder ==
    /\ chatPressingRef
    /\ ActiveRecorder
    /\ recordStopAttemptRef < MaxStopAttempts
    /\ chatPressingRef' = FALSE
    /\ abortRecordingRef' = FALSE
    /\ chatSending' = TRUE
    /\ chatPhase' = "encoding"
    /\ recordStopAttemptRef' = recordStopAttemptRef + 1
    /\ watchdogs' = ClearWatchdog(watchdogs)
                       \cup {[attemptId |-> recordStopAttemptRef + 1, busySeen |-> chatBusy,
                              recorder |-> mediaRecorderRef]}
    /\ recordStopWatchdogRef' = recordStopAttemptRef + 1
    /\ recorders' = [recorders EXCEPT ![mediaRecorderRef].phase = "stopping"]
    /\ UNCHANGED <<chatBusy, recording, chatMessages, mediaRecorderRef, streamRef,
                   recordedChunksRef, requests, nextTurn, liveTracks, notToyVars>>

\* stopRecordingAndSend without an active recorder: the watchdog is cancelled
\* again and a text nudge is sent.
ReleaseWithoutRecorder ==
    /\ chatPressingRef
    /\ recording /\ ~ActiveRecorder
    /\ recordStopAttemptRef < MaxStopAttempts
    /\ CanSend(chatBusy)
    /\ chatPressingRef' = FALSE
    /\ abortRecordingRef' = FALSE
    /\ recordStopAttemptRef' = recordStopAttemptRef + 1
    /\ watchdogs' = ClearWatchdog(watchdogs)
    /\ recordStopWatchdogRef' = 0
    /\ chatSending' = FALSE
    /\ chatPhase' = "thinking"
    /\ SendChat(chatBusy, NoRecorder, mediaRecorderRef)
    /\ UNCHANGED <<recording, mediaRecorderRef, streamRef, recordedChunksRef,
                   recorders, liveTracks, notToyVars>>

\* The 8500 ms timer of recorder r: it stops whatever recorder the ref holds.
HardStopFires(r) ==
    /\ recorders[r].hardStop
    /\ recorders' =
          [x \in RecorderIds |->
              LET timed == IF x = r THEN [recorders[x] EXCEPT !.hardStop = FALSE]
                           ELSE recorders[x]
              IN  IF x = mediaRecorderRef /\ recorders[x].phase = "recording"
                  THEN [timed EXCEPT !.phase = "stopping"]
                  ELSE timed]
    /\ UNCHANGED <<chatBusy, chatSending, recording, chatPhase, chatMessages,
                   chatPressingRef, abortRecordingRef, recordStopAttemptRef,
                   recordStopWatchdogRef, mediaRecorderRef, streamRef,
                   recordedChunksRef, watchdogs, requests, nextTurn, liveTracks, notToyVars>>

\* The stop watchdog firing without its setChatSending(false)
WatchdogFiresSending(w) ==
    /\ w \in watchdogs
    /\ watchdogs' = watchdogs \ {w}
    /\ IF w.attemptId # recordStopAttemptRef
       THEN UNCHANGED <<chatSending, chatPhase, chatBusy, chatMessages, requests,
                        nextTurn>>
       ELSE /\ CanSend(w.busySeen)
            /\ UNCHANGED chatSending
            /\ chatPhase' = "thinking"
            /\ SendChat(w.busySeen, NoRecorder, w.recorder)
    /\ UNCHANGED <<recording, chatPressingRef, abortRecordingRef,
                   recordStopAttemptRef, recordStopWatchdogRef, mediaRecorderRef,
                   streamRef, recordedChunksRef, recorders, liveTracks, notToyVars>>

\* The 3500 ms stop watchdog w fires.
WatchdogFires(w) ==
    /\ w \in watchdogs
    /\ watchdogs' = watchdogs \ {w}
    /\ IF w.attemptId # recordStopAttemptRef
       THEN UNCHANGED <<chatSending, chatPhase, chatBusy, chatMessages, requests,
                        nextTurn>>
       ELSE /\ CanSend(w.busySeen)
            /\ chatSending' = FALSE
            /\ chatPhase' = "thinking"
            /\ SendChat(w.busySeen, NoRecorder, w.recorder)
    /\ UNCHANGED <<recording, chatPressingRef, abortRecordingRef,
                   recordStopAttemptRef, recordStopWatchdogRef, mediaRecorderRef,
                   streamRef, recordedChunksRef, recorders, liveTracks, notToyVars>>

\* recorder.onstop of recorder r, up to its first await.
OnStop(r) ==
    /\ recorders[r].phase = "stopping"
    /\ watchdogs' = ClearWatchdog(watchdogs)
    /\ recordStopWatchdogRef' = 0
    /\ recording' = FALSE
    /\ streamRef' = NoRecorder
    /\ mediaRecorderRef' = NoRecorder
    /\ recordedChunksRef' = <<>>
    /\ IF abortRecordingRef
       THEN /\ chatSending' = FALSE
            /\ chatPhase' = "idle"
            /\ recorders' = [recorders EXCEPT ![r].phase = "done", ![r].hardStop = FALSE]
            /\ UNCHANGED <<chatBusy, chatMessages, requests, nextTurn>>
       ELSE IF recordedChunksRef = <<>>
       THEN /\ CanSend(recorders[r].busySeen)
            /\ chatPhase' = "thinking"
            /\ SendChat(recorders[r].busySeen, r, r)
            /\ chatSending' = IF recorders[r].busySeen THEN FALSE ELSE chatSending
            /\ recorders' = [recorders EXCEPT
                  ![r] = [Submitted(recorders[r], "none", "text", "none")
                             EXCEPT !.hardStop = FALSE]]
       ELSE /\ chatPhase' = "encoding"
            /\ recorders' = [recorders EXCEPT ![r].phase = "encoding",
                                               ![r].hardStop = FALSE]
            /\ UNCHANGED <<chatSending, chatBusy, chatMessages, requests, nextTurn>>
    /\ UNCHANGED <<chatPressingRef, abortRecordingRef, recordStopAttemptRef,
                   notToyVars>>
    /\ liveTracks' = liveTracks \ {r}

\* onstop after the recording is encoded: the audio is sent.
Encoded(r) ==
    /\ recorders[r].phase = "encoding"
    /\ CanSend(recorders[r].busySeen)
    /\ chatPhase' = "thinking"
    /\ SendChat(recorders[r].busySeen, r, r)
    /\ chatSending' = IF recorders[r].busySeen THEN FALSE ELSE chatSending
    /\ recorders' = [recorders EXCEPT
          ![r] = Submitted(recorders[r], "ok", "wav", "audio/wav")]
    /\ UNCHANGED <<recording, chatPressingRef, abortRecordingRef,
                   recordStopAttemptRef, recordStopWatchdogRef, mediaRecorderRef,
                   streamRef, recordedChunksRef, watchdogs, liveTracks, notToyVars>>

\* onstop giving up when audioBlobToWavBase64 throws
GivesUpOnDecodeFailure(r) ==
    /\ recorders[r].phase = "encoding"
    /\ chatPhase' = "idle"
    /\ chatSending' = FALSE
    /\ recorders' = [recorders EXCEPT ![r].phase = "done", ![r].decoded = "failed"]
    /\ UNCHANGED <<chatBusy, recording, chatMessages, chatPressingRef,
                   abortRecordingRef, recordStopAttemptRef, recordStopWatchdogRef,
                   mediaRecorderRef, streamRef, recordedChunksRef, watchdogs,
                   requests, nextTurn, liveTracks, notToyVars>>

\* onstop when audioBlobToWavBase64 throws (no AudioContext, decode error,
\* timeout): the recording itself is read as base64 and sent with
\* recorder.mimeType.
SendsOriginal(r) ==
    /\ recorders[r].phase = "encoding"
    /\ CanSend(recorders[r].busySeen)
    /\ chatPhase' = "thinking"
    /\ SendChat(recorders[r].busySeen, r, r)
    /\ chatSending' = IF recorders[r].busySeen THEN FALSE ELSE chatSending
    /\ recorders' = [recorders EXCEPT
          ![r] = Submitted(recorders[r], "failed", "original", "recorder.mimeType")]
    /\ UNCHANGED <<recording, chatPressingRef, abortRecordingRef,
                   recordStopAttemptRef, recordStopWatchdogRef, mediaRecorderRef,
                   streamRef, recordedChunksRef, watchdogs, liveTracks, notToyVars>>

\* onstop when both encoders fail
EncodeFails(r) ==
    /\ recorders[r].phase = "encoding"
    /\ chatPhase' = "idle"
    /\ chatSending' = FALSE
    /\ recorders' = [recorders EXCEPT ![r].phase = "done", ![r].decoded = "unreadable"]
    /\ UNCHANGED <<chatBusy, recording, chatMessages, chatPressingRef,
                   abortRecordingRef, recordStopAttemptRef, recordStopWatchdogRef,
                   mediaRecorderRef, streamRef, recordedChunksRef, watchdogs,
                   requests, nextTurn, liveTracks, notToyVars>>

\* The end of a turn: sendChat's finally, then the finally of the onstop that
\* awaited it.
TurnEnds(req) ==
    /\ requests' = requests \ {req}
    /\ chatBusy' = FALSE
    /\ IF req.from = NoRecorder
       THEN UNCHANGED <<chatSending, recorders>>
       ELSE /\ chatSending' = FALSE
            /\ recorders' = [recorders EXCEPT ![req.from].phase = "done"]

\* sendChat after /api/chat answered ok:true
ChatOk(req) ==
    /\ req \in requests
    /\ chatMessages' = Append(chatMessages, [role |-> "assistant", turn |-> req.turn])
    /\ chatPhase' \in {"speaking", "idle"}
    /\ TurnEnds(req)
    /\ UNCHANGED <<recording, chatPressingRef, abortRecordingRef,
                   recordStopAttemptRef, recordStopWatchdogRef, mediaRecorderRef,
                   streamRef, recordedChunksRef, watchdogs, nextTurn, liveTracks, notToyVars>>

\* sendChat's catch: the request failed, timed out, or answered ok:false
ChatFails(req) ==
    /\ req \in requests
    /\ chatPhase' = "idle"
    /\ TurnEnds(req)
    /\ UNCHANGED <<recording, chatMessages, chatPressingRef, abortRecordingRef,
                   recordStopAttemptRef, recordStopWatchdogRef, mediaRecorderRef,
                   streamRef, recordedChunksRef, watchdogs, nextTurn, liveTracks, notToyVars>>

ToyNext ==
    \/ Press
    \/ \E r \in RecorderIds : StartRecorder(r)
    \/ \E r \in RecorderIds : StartFails(r)
    \/ \E r \in RecorderIds : RecorderFails(r)
    \/ \E r \in RecorderIds : DataAvailable(r)
    \/ ReleaseShort
    \/ ReleaseBeforeStart
    \/ Cancel
    \/ ReleaseStopsRecorder
    \/ ReleaseWithoutRecorder
    \/ \E r \in RecorderIds : HardStopFires(r)
    \/ \E w \in watchdogs : WatchdogFires(w)
    \/ \E r \in RecorderIds : OnStop(r)
    \/ \E r \in RecorderIds : Encoded(r)
    \/ \E r \in RecorderIds : SendsOriginal(r)
    \/ \E r \in RecorderIds : EncodeFails(r)
    \/ \E req \in requests : ChatOk(req)
    \/ \E req \in requests : ChatFails(req)

-----------------------------------------------------------------------------
(* The story toy page: playback deferred to the next user gesture *)

MaxReplies == 2
MaxStoryTexts == 2

\* A pending text or url is the number of the story or reply it belongs to;
\* NoText is the empty string.
NoText == 0

StoryTexts == 1..MaxStoryTexts

PlaybackKinds == {"speak", "chatSpeak", "chatPlay"}

\* The events of one tap, in the order the browser dispatches them.
GestureEvents == <<"pointerdown", "touchstart", "click">>

\* The refs the playback functions read and write, as one value.  listeners
\* counts, per kind, the listener sets addOneTimeGestureListener registered
\* and has not removed; attempts counts, per kind, the playback attempts the
\* listeners made during the tap being dispatched.
PlaybackRefs ==
    [canSystemSpeak |-> canSystemSpeak,
     pendingSpeakTextRef |-> pendingSpeakTextRef,
     speakOnGestureArmedRef |-> speakOnGestureArmedRef,
     pendingChatSpeakTextRef |-> pendingChatSpeakTextRef,
     chatSpeakOnGestureArmedRef |-> chatSpeakOnGestureArmedRef,
     pendingChatPlayUrlRef |-> pendingChatPlayUrlRef,
     chatPlayOnGestureArmedRef |-> chatPlayOnGestureArmedRef,
     listeners |-> gestureListeners,
     attempts |-> gestureAttempts]

SetPlaybackRefs(p) ==
    /\ pendingSpeakTextRef' = p.pendingSpeakTextRef
    /\ speakOnGestureArmedRef' = p.speakOnGestureArmedRef
    /\ pendingChatSpeakTextRef' = p.pendingChatSpeakTextRef
    /\ chatSpeakOnGestureArmedRef' = p.chatSpeakOnGestureArmedRef
    /\ pendingChatPlayUrlRef' = p.pendingChatPlayUrlRef
    /\ chatPlayOnGestureArmedRef' = p.chatPlayOnGestureArmedRef
    /\ gestureListeners' = p.listeners
    /\ gestureAttempts' = p.attempts
    /\ UNCHANGED canSystemSpeak

\* addOneTimeGestureListener: one listener set more of the kind
addOneTimeGestureListener(p, kind) ==
    [p EXCEPT !.listeners[kind] = @ + 1]

\* scheduleSpeakOnNextGesture without its armed check
scheduleSpeakOnEveryCall(p) ==
    IF ~p.canSystemSpeak \/ p.pendingSpeakTextRef = NoText THEN p
    ELSE addOneTimeGestureListener([p EXCEPT !.speakOnGestureArmedRef = TRUE], "speak")

scheduleSpeakOnNextGesture(p) ==
    IF p.speakOnGestureArmedRef THEN p ELSE scheduleSpeakOnEveryCall(p)

\* scheduleChatSpeakOnNextGesture without its armed check
scheduleChatSpeakOnEveryCall(p) ==
    IF ~p.canSystemSpeak \/ p.pendingChatSpeakTextRef = NoText THEN p
    ELSE addOneTimeGestureListener([p EXCEPT !.chatSpeakOnGestureArmedRef = TRUE],
                                   "chatSpeak")

scheduleChatSpeakOnNextGesture(p) ==
    IF p.chatSpeakOnGestureArmedRef THEN p ELSE scheduleChatSpeakOnEveryCall(p)

\* scheduleChatPlayOnNextGesture without its armed check (the audio element
\* is mounted with the page)
scheduleChatPlayOnEveryCall(p) ==
    IF p.pendingChatPlayUrlRef = NoText THEN p
    ELSE addOneTimeGestureListener([p EXCEPT !.chatPlayOnGestureArmedRef = TRUE],
                                   "chatPlay")

scheduleChatPlayOnNextGesture(p) ==
    IF p.chatPlayOnGestureArmedRef THEN p ELSE scheduleChatPlayOnEveryCall(p)

\* speakWithSystem(text): speaks is whether speechSynthesis.speak returns
\* rather than throws.  The function has no await, so it runs in one step.
spokeWithSystem(p, text, speaks) ==
    p.canSystemSpeak /\ text # NoText /\ speaks

speakWithSystem(p, text, speaks) ==
    IF ~p.canSystemSpeak \/ text = NoText THEN p
    ELSE IF speaks THEN [p EXCEPT !.pendingSpeakTextRef = NoText]
    ELSE scheduleSpeakOnNextGesture([p EXCEPT !.pendingSpeakTextRef = text])

speakChatWithSystem(p, text, speaks) ==
    IF ~p.canSystemSpeak \/ text = NoText THEN p
    ELSE IF speaks THEN [p EXCEPT !.pendingChatSpeakTextRef = NoText]
    ELSE scheduleChatSpeakOnNextGesture([p EXCEPT !.pendingChatSpeakTextRef = text])

\* stopChatAudio without its clearing of the pending speech text
stopChatAudioKeepsText(p) ==
    [p EXCEPT !.pendingChatPlayUrlRef = NoText]

\* stopChatAudio
stopChatAudio(p) ==
    [p EXCEPT !.pendingChatPlayUrlRef = NoText, !.pendingChatSpeakTextRef = NoText]

\* The listener scheduleSpeakOnNextGesture registered, run by wrapped, which
\* then removes the set.
SpeakListener(p, speaks) ==
    LET q == [p EXCEPT !.speakOnGestureArmedRef = FALSE, !.listeners["speak"] = 0]
        text == q.pendingSpeakTextRef
    IN  IF text = NoText THEN q
        ELSE speakWithSystem([q EXCEPT !.attempts["speak"] = @ + 1], text, speaks)

ChatSpeakListener(p, speaks) ==
    LET q == [p EXCEPT !.chatSpeakOnGestureArmedRef = FALSE,
                       !.listeners["chatSpeak"] = 0]
        text == q.pendingChatSpeakTextRef
    IN  IF text = NoText THEN q
        ELSE speakChatWithSystem([q EXCEPT !.attempts["chatSpeak"] = @ + 1], text, speaks)

\* The listener scheduleChatPlayOnNextGesture registered, up to its first
\* await: it has read the url and goes on to play it.
ChatPlayListener(p) ==
    LET q == [p EXCEPT !.chatPlayOnGestureArmedRef = FALSE,
                       !.listeners["chatPlay"] = 0]
    IN  IF q.pendingChatPlayUrlRef = NoText THEN q
        ELSE [q EXCEPT !.attempts["chatPlay"] = @ + 1]

Dispatched(p, kind, after) ==
    IF p.listeners[kind] > 0 THEN after ELSE p

PlayIdle ==
    /\ canSystemSpeak = FALSE
    /\ pendingSpeakTextRef = NoText
    /\ speakOnGestureArmedRef = FALSE
    /\ pendingChatSpeakTextRef = NoText
    /\ chatSpeakOnGestureArmedRef = FALSE
    /\ pendingChatPlayUrlRef = NoText
    /\ chatPlayOnGestureArmedRef = FALSE
    /\ gestureListeners = [k \in PlaybackKinds |-> 0]
    /\ gestureAttempts = [k \in PlaybackKinds |-> 0]
    /\ gestureEvent = 0
    /\ chatPlaysAwaited = 0
    /\ turnsStarted = 0
    /\ turnsAnswered = 0

notPlayVars == <<chatVars, sanVars, fbVars, genVars, toyVars, wavVars,
    extVars,
    storyPageVars,
    convVars,
    memVars,
    mimeVars>>

\* generate, toggleSpeakLang: the story's audio did not play (or there is
\* none), so the page speaks the story and, if that fails, leaves it pending.
StoryPlaybackFails(story, speaks) ==
    /\ \E spoken \in {speakWithSystem(PlaybackRefs, story, speaks)} :
         SetPlaybackRefs(
           IF spokeWithSystem(PlaybackRefs, story, speaks) THEN spoken
           ELSE scheduleSpeakOnNextGesture([spoken EXCEPT !.pendingSpeakTextRef = story]))
    /\ UNCHANGED <<gestureEvent, chatPlaysAwaited, turnsStarted, turnsAnswered, notPlayVars>>

\* togglePlay: audio.play rejected, the page speaks the pending text or else
\* the story shown.
TogglePlayFails(activeStory, speaks) ==
    /\ canSystemSpeak
    /\ \E text \in {IF pendingSpeakTextRef # NoText THEN pendingSpeakTextRef
                    ELSE activeStory} :
       \E spoken \in {speakWithSystem(PlaybackRefs, text, speaks)} :
         SetPlaybackRefs(
           IF spokeWithSystem(PlaybackRefs, text, speaks) THEN spoken
           ELSE scheduleSpeakOnNextGesture(spoken))
    /\ UNCHANGED <<gestureEvent, chatPlaysAwaited, turnsStarted, turnsAnswered, notPlayVars>>

\* sendChat, once past its guard: stopChatAudio drops what is pending.
ChatTurnStarts ==
    /\ turnsStarted < MaxReplies
    /\ turnsStarted' = turnsStarted + 1
    /\ SetPlaybackRefs(stopChatAudio(PlaybackRefs))
    /\ UNCHANGED <<gestureEvent, chatPlaysAwaited, turnsAnswered, notPlayVars>>

\* sendChat after a reply with ok: true: the reply's audio is played, or its
\* text spoken.  hasAudio: the reply carries audio; plays: playChatAudio
\* returns true; speaks: speechSynthesis.speak returns.
ChatReplyPlayback(hasAudio, plays, speaks) ==
    /\ turnsAnswered < turnsStarted
    /\ turnsAnswered' = turnsAnswered + 1
    /\ \E reply \in {turnsAnswered + 1} :
       \E urlPending \in {scheduleChatPlayOnNextGesture(
                            [PlaybackRefs EXCEPT !.pendingChatPlayUrlRef = reply])} :
       \E from \in {IF hasAudio THEN urlPending ELSE PlaybackRefs} :
       \E spoken \in {speakChatWithSystem(
                        [from EXCEPT !.pendingChatSpeakTextRef = reply], reply, speaks)} :
         SetPlaybackRefs(
           IF hasAudio /\ plays THEN PlaybackRefs
           ELSE IF ~canSystemSpeak THEN from
           ELSE IF spokeWithSystem(from, reply, speaks) THEN spoken
           ELSE scheduleChatSpeakOnNextGesture(spoken))
    /\ UNCHANGED <<gestureEvent, chatPlaysAwaited, turnsStarted, notPlayVars>>

\* The browser dispatches the next event of a tap to the window: every
\* listener set registered before the dispatch runs once and is removed.
GestureEvent(speaks, chatSpeaks) ==
    /\ gestureEvent' = (gestureEvent % Len(GestureEvents)) + 1
    /\ \E tap \in {IF gestureEvent' = 1
                   THEN [PlaybackRefs EXCEPT !.attempts = [k \in PlaybackKinds |-> 0]]
                   ELSE PlaybackRefs} :
       \E story \in {Dispatched(tap, "speak", SpeakListener(tap, speaks))} :
       \E chat \in {Dispatched(story, "chatSpeak", ChatSpeakListener(story, chatSpeaks))} :
         /\ SetPlaybackRefs(Dispatched(chat, "chatPlay", ChatPlayListener(chat)))
         /\ chatPlaysAwaited' =
              IF chat.listeners["chatPlay"] > 0 /\ chat.pendingChatPlayUrlRef # NoText
              THEN chatPlaysAwaited + 1 ELSE chatPlaysAwaited
    /\ UNCHANGED <<turnsStarted, turnsAnswered, notPlayVars>>

\* The chat-play listener after its awaits: audio.play() resolved (plays) or
\* rejected, and then the listener arms itself again.
ChatPlaySettles(plays) ==
    /\ chatPlaysAwaited > 0
    /\ chatPlaysAwaited' = chatPlaysAwaited - 1
    /\ SetPlaybackRefs(IF plays THEN PlaybackRefs
                       ELSE scheduleChatPlayOnNextGesture(PlaybackRefs))
    /\ UNCHANGED <<gestureEvent, turnsStarted, turnsAnswered, notPlayVars>>

PlayNext ==
    \/ \E story \in StoryTexts, speaks \in BOOLEAN : StoryPlaybackFails(story, speaks)
    \/ \E activeStory \in StoryTexts, speaks \in BOOLEAN : TogglePlayFails(activeStory, speaks)
    \/ ChatTurnStarts
    \/ \E hasAudio, plays, speaks \in BOOLEAN : ChatReplyPlayback(hasAudio, plays, speaks)
    \/ \E speaks, chatSpeaks \in BOOLEAN : GestureEvent(speaks, chatSpeaks)
    \/ \E plays \in BOOLEAN : ChatPlaySettles(plays)

-----------------------------------------------------------------------------
(* The recording encoder: resampleLinear, audioBufferToWavBlob *)

MaxSeconds == 9
MaxChannels == 2

TargetSampleRate == 16000
MaxDurationSec == 8

\* The sample rates of the decoded audio that are tried.
SampleRates == {8000, 16000, 32000, 44100, 48000}

\* Lengths (in samples) around every whole second up to MaxSeconds.
BufferLengths(sampleRate) ==
    {n \in {s * sampleRate + j : s \in 0..MaxSeconds, j \in {-1, 0, 1}} : n >= 1}

\* The decoded AudioBuffers: only the values that decide the clip's size.
AudioBuffers ==
    UNION {[length : BufferLengths(rate), sampleRate : {rate},
            numberOfChannels : 1..MaxChannels] : rate \in SampleRates}

RECURSIVE Gcd(_, _)
Gcd(a, b) == IF b = 0 THEN a ELSE Gcd(b, a % b)

Max(a, b) == IF a >= b THEN a ELSE b

\* Math.round(n * outRate / inRate): halves go up.  The fraction is reduced
\* first; for the rates above the double product is nowhere near a half by
\* rounding error, so the exact quotient is what Math.round sees.
RoundedRatio(n, outRate, inRate) ==
    LET g == Gcd(outRate, inRate)
        num == outRate \div g
        den == inRate \div g
    IN  (2 * n * num + den) \div (2 * den)

\* resampleLinear(input, inRate, outRate).length
ResampledLength(length, inRate, outRate) ==
    IF inRate = outRate THEN length
    ELSE Max(1, RoundedRatio(length, outRate, inRate))

\* Math.max(1, Math.round(targetSampleRate * maxDurationSec))
MaxSamples == Max(1, TargetSampleRate * MaxDurationSec)

\* samples.length without the slice to maxSamples
UnclippedLength(buffer) ==
    ResampledLength(buffer.length, buffer.sampleRate, TargetSampleRate)

\* samples.length after the slice
SampleCount(buffer) ==
    IF UnclippedLength(buffer) > MaxSamples THEN MaxSamples
    ELSE UnclippedLength(buffer)

\* view.setUint16 / view.setUint32 with littleEndian = true
Uint16LE(v) == <<v % 256, (v \div 256) % 256>>

Uint32LE(v) ==
    <<v % 256, (v \div 256) % 256, (v \div 65536) % 256, (v \div 16777216) % 256>>

\* writeString for "RIFF", "WAVE", "fmt ", "data"
Riff == <<82, 73, 70, 70>>
Wave == <<87, 65, 86, 69>>
Fmt == <<102, 109, 116, 32>>
Data == <<100, 97, 116, 97>>

BytesPerSample == 2

\* blockAlign as the mutant computes it: one block per input channel
BlockAlignPerChannel(buffer) == buffer.numberOfChannels * BytesPerSample

\* const blockAlign = 1 * bytesPerSample
BlockAlign(buffer) == 1 * BytesPerSample

\* audioBufferToWavBlob: the 44 header bytes and the blob's size.  The
\* samples themselves are not kept.
WavOf(buffer, count) ==
    LET blockAlign == BlockAlign(buffer)
        byteRate == TargetSampleRate * blockAlign
        dataSize == count * BytesPerSample
    IN  [header |-> Riff \o Uint32LE(36 + dataSize) \o Wave \o Fmt \o Uint32LE(16)
                    \o Uint16LE(1) \o Uint16LE(1) \o Uint32LE(TargetSampleRate)
                    \o Uint32LE(byteRate) \o Uint16LE(blockAlign) \o Uint16LE(16)
                    \o Data \o Uint32LE(dataSize),
         size |-> 44 + dataSize,
         type |-> "audio/wav"]

audioBufferToWavBlob(buffer) == WavOf(buffer, SampleCount(buffer))

NoWav == [header |-> <<>>, size |-> 0, type |-> ""]

WavIdle ==
    /\ wavPc = "decoded"
    /\ wavBuffer = [length |-> 1, sampleRate |-> TargetSampleRate, numberOfChannels |-> 1]
    /\ wavBlob = NoWav

notWavVars == <<chatVars, sanVars, fbVars, genVars, toyVars, playVars,
    extVars,
    storyPageVars,
    convVars,
    memVars,
    mimeVars>>

\* audioBlobToWavBase64 hands the decoded buffer to audioBufferToWavBlob.
EncodeWav ==
    /\ wavPc = "decoded"
    /\ wavBlob' = audioBufferToWavBlob(wavBuffer)
    /\ wavPc' = "encoded"
    /\ UNCHANGED <<wavBuffer, notWavVars>>

WavNext == EncodeWav

-----------------------------------------------------------------------------
(* Text extraction: the reply's text among the JSON locations *)

NoJson == [messageContent |-> Undef, deltaContent |-> Undef, dataMessageContent |-> Undef]

ExtIdle ==
    /\ extJson = NoJson
    /\ extVoicePc = "idle"
    /\ extVoiceText = Undef
    /\ extChatPc = "idle"
    /\ extContent = Undef

notExtVars == <<chatVars, sanVars, fbVars, genVars, toyVars, playVars, wavVars,
    storyPageVars,
    convVars,
    memVars,
    mimeVars>>

\* The voice tier of POST /api/chat takes the text out of the body
\* (route.ts:312-319).
ExtractVoiceText ==
    /\ extVoicePc = "parsed"
    /\ extVoiceText' = clampText(VoiceAssistantText(extJson), MaxAssistantText)
    /\ extVoicePc' = IF VoiceTextRejected(extVoiceText') THEN "thrown" ELSE "returned"
    /\ UNCHANGED <<extJson, extChatPc, extContent, notExtVars>>

\* zhipuChatCompletions takes the content out of the body (part_003:39-49).
ExtractChatContent ==
    /\ extChatPc = "parsed"
    /\ IF ChatContentRejected(ChatContent(extJson))
       THEN /\ extChatPc' = "thrown"
            /\ UNCHANGED extContent
       ELSE /\ extChatPc' = "returned"
            /\ extContent' = Trim(ChatContent(extJson))
    /\ UNCHANGED <<extJson, extVoicePc, extVoiceText, notExtVars>>

ExtNext == ExtractVoiceText \/ ExtractChatContent

-----------------------------------------------------------------------------
(* The story toy page: generate, from the story request to the first playback *)

MaxGenerations == 2

NoMessage == ""
friendlyGenerateFailure == "friendlyGenerateFailure"
friendlyNeedTapSpeaker == "friendlyNeedTapSpeaker"
SystemVoiceNotice == "systemVoice"

\* How a /api/tts call can fail: the 400 for a missing ZHIPU_TTS_MODEL or story
\* (part_000:31-50), the 500 of its catch (part_000:69-76), a failed fetch, a
\* body that is no JSON, audio that atob rejects.
TtsFailures == {"missing_model", "server_error", "neterr", "badjson", "badbase64"}

\* part_005:369
canGenerate(seed) == seed # NoText /\ ~busy

StoryPageIdle ==
    /\ generatePc = "idle"
    /\ busy = FALSE
    /\ storyZh = NoText
    /\ storyEn = NoText
    /\ error = NoMessage
    /\ audioUrlZh = NoText
    /\ playing = FALSE
    /\ ttsRes = "none"
    /\ playRes = "none"
    /\ generations = 0

\* generate changes the page's playback refs too.
notStoryPageVars == <<chatVars, sanVars, fbVars, genVars, toyVars, wavVars, extVars,
    convVars,
    memVars,
    mimeVars>>

playCounters == <<gestureEvent, chatPlaysAwaited, turnsStarted, turnsAnswered>>

\* The catch blocks of generate: speak the story with the system voice and,
\* if that did not speak, leave it pending for the next gesture
\* (part_005:1009-1014, 1021-1026).
speakOrDefer(p, story, speaks) ==
    LET spoken == speakWithSystem(p, story, speaks)
    IN  IF spokeWithSystem(p, story, speaks) THEN spoken
        ELSE scheduleSpeakOnNextGesture([spoken EXCEPT !.pendingSpeakTextRef = story])

\* generate up to its request (part_005:905-952)
GenerateStarts(seed) ==
    /\ generatePc = "idle"
    /\ generations < MaxGenerations
    /\ canGenerate(seed)
    /\ generations' = generations + 1
    /\ busy' = TRUE
    /\ error' = NoMessage
    /\ playing' = FALSE
    /\ storyZh' = NoText
    /\ storyEn' = NoText
    /\ audioUrlZh' = NoText
    /\ ttsRes' = "none"
    /\ playRes' = "none"
    /\ generatePc' = "story"
    /\ UNCHANGED <<playVars, notStoryPageVars>>

\* /api/generate-bilingual fails, or answers ok: false or no JSON: the outer
\* catch and the finally (part_005:953-963, 1029-1034)
GenerateStoryFails ==
    /\ generatePc = "story"
    /\ error' = friendlyGenerateFailure
    /\ busy' = FALSE
    /\ generatePc' = "idle"
    /\ UNCHANGED <<storyZh, storyEn, audioUrlZh, playing, ttsRes, playRes, generations,
                   playVars, notStoryPageVars>>

\* The stories arrive and the page asks for the audio (part_005:965-980)
GenerateStoryArrives(zh, en) ==
    /\ generatePc = "story"
    /\ storyZh' = zh
    /\ storyEn' = en
    /\ generatePc' = "tts"
    /\ UNCHANGED <<busy, error, audioUrlZh, playing, ttsRes, playRes, generations,
                   playVars, notStoryPageVars>>

\* The inner catch failing as the outer one does
GenerateTtsFailsUncaught(res, speaks) ==
    /\ generatePc = "tts"
    /\ ttsRes' = res
    /\ audioUrlZh' = NoText
    /\ error' = friendlyGenerateFailure
    /\ busy' = FALSE
    /\ generatePc' = "idle"
    /\ UNCHANGED <<storyZh, storyEn, playing, playRes, generations, playVars,
                   notStoryPageVars>>

\* /api/tts fails: the inner catch and the finally (part_005:981-994,
\* 1018-1028, 1032-1034)
GenerateTtsFails(res, speaks) ==
    /\ generatePc = "tts"
    /\ ttsRes' = res
    /\ audioUrlZh' = NoText
    /\ SetPlaybackRefs(speakOrDefer(PlaybackRefs, storyZh, speaks))
    /\ error' = IF spokeWithSystem(PlaybackRefs, storyZh, speaks)
                THEN SystemVoiceNotice ELSE friendlyNeedTapSpeaker
    /\ busy' = FALSE
    /\ generatePc' = "idle"
    /\ UNCHANGED <<storyZh, storyEn, playing, playRes, generations, playCounters,
                   notStoryPageVars>>

\* /api/tts answers with audio, which the page loads (part_005:981-1004)
GenerateTtsArrives ==
    /\ generatePc = "tts"
    /\ ttsRes' = "ok"
    /\ audioUrlZh' = storyZh
    /\ generatePc' = "play"
    /\ UNCHANGED <<busy, storyZh, storyEn, error, playing, playRes, generations,
                   playVars, notStoryPageVars>>

\* audio.play() resolves (part_005:1004-1005, 1032-1034)
GeneratePlays ==
    /\ generatePc = "play"
    /\ playRes' = "played"
    /\ playing' = TRUE
    /\ busy' = FALSE
    /\ generatePc' = "idle"
    /\ UNCHANGED <<storyZh, storyEn, error, audioUrlZh, ttsRes, generations,
                   playVars, notStoryPageVars>>

\* audio.play() rejects (part_005:1006-1016, 1032-1034)
GeneratePlayRejected(speaks) ==
    /\ generatePc = "play"
    /\ playRes' = "rejected"
    /\ playing' = FALSE
    /\ SetPlaybackRefs(speakOrDefer(PlaybackRefs, storyZh, speaks))
    /\ error' = IF spokeWithSystem(PlaybackRefs, storyZh, speaks)
                THEN error ELSE friendlyNeedTapSpeaker
    /\ busy' = FALSE
    /\ generatePc' = "idle"
    /\ UNCHANGED <<storyZh, storyEn, audioUrlZh, ttsRes, generations, playCounters,
                   notStoryPageVars>>

StoryPageNext ==
    \/ \E seed \in StoryTexts : GenerateStarts(seed)
    \/ GenerateStoryFails
    \/ \E zh \in StoryTexts, en \in StoryTexts : GenerateStoryArrives(zh, en)
    \/ \E res \in TtsFailures, speaks \in BOOLEAN : GenerateTtsFails(res, speaks)
    \/ GenerateTtsArrives
    \/ GeneratePlays
    \/ \E speaks \in BOOLEAN : GeneratePlayRejected(speaks)

-----------------------------------------------------------------------------
(* The conversation id between the page and POST /api/chat *)

MaxConvTurns == 3
MaxResets == 1

\* crypto.randomUUID(): the k-th id
Uuid(k) == <<117, k>>

\* route.ts:159-161, for a body whose conversationId is raw (Undef: not a string)
MintedConversationId(raw, uuid) ==
    LET conversationIdRaw == IF raw = Undef THEN Empty ELSE raw
    IN  IF Trim(conversationIdRaw) # Empty THEN Trim(conversationIdRaw) ELSE uuid

\* conversationId || undefined (part_005:1308)
SentConversationId(id) == IF id = Empty THEN Undef ELSE id

ConvIdle ==
    /\ conversationId = Empty
    /\ convBusy = FALSE
    /\ convTurns = <<>>
    /\ convEpoch = 0
    /\ uuids = 0

notConvVars == <<chatVars, sanVars, fbVars, genVars, toyVars, playVars, wavVars, extVars,
                 storyPageVars,
    memVars,
    mimeVars>>

\* sendChat up to its fetch (part_005:1274-1319)
ConvSendChat ==
    /\ ~convBusy
    /\ Len(convTurns) < MaxConvTurns
    /\ convBusy' = TRUE
    /\ convTurns' = Append(convTurns,
                           [epoch |-> convEpoch, sent |-> SentConversationId(conversationId),
                            server |-> "pending", served |-> Undef, client |-> "waiting"])
    /\ UNCHANGED <<conversationId, convEpoch, uuids, notConvVars>>

\* POST /api/chat handles the request: it takes or mints the id (route.ts:159-161)
\* and answers ok: true with it, after logging the turn under it
\* (route.ts:401-431), or fails (route.ts:443-450).
ConvServerHandles(t, ok) ==
    /\ convTurns[t].server = "pending"
    /\ convTurns' = [convTurns EXCEPT
                       ![t].served = MintedConversationId(convTurns[t].sent, Uuid(uuids + 1)),
                       ![t].server = IF ok THEN "ok" ELSE "err"]
    /\ uuids' = IF convTurns'[t].served = Uuid(uuids + 1) THEN uuids + 1 ELSE uuids
    /\ UNCHANGED <<conversationId, convBusy, convEpoch, notConvVars>>

\* sendChat after the reply with ok: true (part_005:1323-1331, 1362-1364)
ConvReplyOk(t) ==
    /\ convTurns[t].client = "waiting"
    /\ convTurns[t].server = "ok"
    /\ conversationId' = convTurns[t].served
    /\ convBusy' = FALSE
    /\ convTurns' = [convTurns EXCEPT ![t].client = "answered"]
    /\ UNCHANGED <<convEpoch, uuids, notConvVars>>

\* sendChat's catch: the reply has ok: false, or the fetch fails, or the 16 s
\* timer aborts it while the server still works (part_005:1296-1299, 1358-1364)
ConvReplyFails(t) ==
    /\ convTurns[t].client = "waiting"
    /\ convBusy' = FALSE
    /\ convTurns' = [convTurns EXCEPT ![t].client = "failed"]
    /\ UNCHANGED <<conversationId, convEpoch, uuids, notConvVars>>

\* resetAll (part_005:861-879)
ConvResetAll ==
    /\ convEpoch < MaxResets
    /\ convEpoch' = convEpoch + 1
    /\ conversationId' = Empty
    /\ convBusy' = FALSE
    /\ UNCHANGED <<convTurns, uuids, notConvVars>>

\* generate (part_005:917)
ConvGenerate ==
    /\ convEpoch < MaxResets
    /\ convEpoch' = convEpoch + 1
    /\ conversationId' = Empty
    /\ UNCHANGED <<convBusy, convTurns, uuids, notConvVars>>

ConvNext ==
    \/ ConvSendChat
    \/ \E t \in DOMAIN convTurns, ok \in BOOLEAN : ConvServerHandles(t, ok)
    \/ \E t \in DOMAIN convTurns : ConvReplyOk(t)
    \/ \E t \in DOMAIN convTurns : ConvReplyFails(t)
    \/ ConvResetAll
    \/ ConvGenerate

-----------------------------------------------------------------------------
(* GET /api/memories and readMemories: src/src/app/api/memories/route.ts, lib/memories.ts *)

MaxLimit == 1000
DefaultLimit == 200

\* Sample strings: "tok", " tok ", "bad", "Bearer tok", "bearer  tok ",
\* "Bearer bad", "Basic tok", "Bearer  ".
Tok == <<116, 111, 107>>
PaddedTok == <<32, 116, 111, 107, 32>>
BadTok == <<98, 97, 100>>
BearerTok == <<66, 101, 97, 114, 101, 114, 32, 116, 111, 107>>
LowerBearerTok == <<98, 101, 97, 114, 101, 114, 32, 32, 116, 111, 107, 32>>
BearerBad == <<66, 101, 97, 114, 101, 114, 32, 98, 97, 100>>
BasicTok == <<66, 97, 115, 105, 99, 32, 116, 111, 107>>
BearerBlank == <<66, 101, 97, 114, 101, 114, 32, 32>>

\* Sample limit parameters: "2", "2.7", "0", "-5", "1001", "abc".
LimitTwo == <<50>>
LimitFraction == <<50, 46, 55>>
LimitZero == <<48>>
LimitNegative == <<45, 53>>
LimitHuge == <<49, 48, 48, 49>>
LimitWord == <<97, 98, 99>>

MemRequests ==
    [authorization : {Undef, BearerTok, LowerBearerTok, BearerBad, BasicTok, BearerBlank},
     token : {Undef, Tok, BadTok},
     limit : {Undef, LimitTwo, LimitFraction, LimitZero, LimitNegative, LimitHuge,
              LimitWord}]

\* A line of the log: a record (by its place in the append order), a line
\* that is no JSON, a line whose JSON is no object, or an empty line.
RecordLine(i) == [kind |-> "record", id |-> i]
GarbageLine == [kind |-> "garbage", id |-> 0]
ScalarLine == [kind |-> "scalar", id |-> 0]
BlankLine == [kind |-> "blank", id |-> 0]

\* A log of n records, as appendMemory writes it: each line ends with "\n",
\* so split("\n") yields an empty last element.
LogOf(n) == [i \in 1..(n + 1) |-> IF i <= n THEN RecordLine(i) ELSE BlankLine]

MemLogs ==
    {[readable |-> FALSE, lines |-> <<>>],
     [readable |-> TRUE, lines |-> <<>>],
     [readable |-> TRUE, lines |-> LogOf(3)],
     [readable |-> TRUE,
      lines |-> <<RecordLine(1), GarbageLine, RecordLine(2), ScalarLine, BlankLine,
                  RecordLine(3), BlankLine>>],
     [readable |-> TRUE, lines |-> LogOf(DefaultLimit + 1)],
     [readable |-> TRUE, lines |-> LogOf(MaxLimit + 1)]}

\* String.prototype.toLowerCase on an ASCII letter
LowerUnit(c) == IF c \in 65..90 THEN c + 32 ELSE c

\* auth.match(/^Bearer\s+(.+)$/i)?.[1] for a value without line terminators:
\* \s+ is greedy but leaves (.+) at least one unit.
BearerMatch(auth) ==
    IF Len(auth) < 8 THEN Undef
    ELSE IF [i \in 1..6 |-> LowerUnit(auth[i])] # <<98, 101, 97, 114, 101, 114>> THEN Undef
    ELSE IF ~IsWs(auth[7]) THEN Undef
    ELSE LET rest == SubSeq(auth, 8, Len(auth))
         IN  IF TrimStart(rest) # Empty THEN TrimStart(rest) ELSE <<rest[Len(rest)]>>

\* route.ts:6-13
getTokenFromRequest(req) ==
    LET m == BearerMatch(Coalesce(req.authorization, Empty))
        tokenFromQuery == IF req.token = Undef THEN Undef ELSE Trim(req.token)
    IN  IF ~Falsy(m) THEN Trim(m)
        ELSE IF Falsy(tokenFromQuery) THEN Empty ELSE tokenFromQuery

\* route.ts:16
AdminToken(env) == IF env = Undef \/ Trim(env) = Empty THEN Empty ELSE Trim(env)

\* route.ts:25 with the comparison dropped
UnauthorizedIfMissing(token, adminToken) == token = Empty

\* route.ts:25
Unauthorized(token, adminToken) == token = Empty \/ token # adminToken

IsDigit(c) == c \in 48..57

RECURSIVE DigitsValue(_)
DigitsValue(ds) ==
    IF ds = <<>> THEN 0 ELSE 10 * DigitsValue(SubSeq(ds, 1, Len(ds) - 1)) + (ds[Len(ds)] - 48)

NaN == [nan |-> TRUE, int |-> 0, frac |-> <<>>]

\* Number(s) for decimal literals: an optional sign, digits and an optional
\* fraction; "" is 0; anything else is NaN.
NumberOf(s) ==
    LET t == Trim(s)
        neg == t # <<>> /\ t[1] = 45
        body == IF t # <<>> /\ t[1] \in {43, 45} THEN Tail(t) ELSE t
        dots == {i \in 1..Len(body) : body[i] = 46}
        whole == IF dots = {} THEN body
                 ELSE SubSeq(body, 1, (CHOOSE i \in dots : TRUE) - 1)
        frac == IF dots = {} THEN <<>>
                ELSE SubSeq(body, (CHOOSE i \in dots : TRUE) + 1, Len(body))
    IN  IF t = <<>> THEN [nan |-> FALSE, int |-> 0, frac |-> <<>>]
        ELSE IF \/ Cardinality(dots) > 1
                \/ whole \o frac = <<>>
                \/ \E i \in 1..Len(whole) : ~IsDigit(whole[i])
                \/ \E i \in 1..Len(frac) : ~IsDigit(frac[i])
        THEN NaN
        ELSE [nan |-> FALSE,
              int |-> IF neg THEN 0 - DigitsValue(whole) ELSE DigitsValue(whole),
              frac |-> frac]

\* Math.trunc
MathTrunc(x) == [x EXCEPT !.frac = <<>>]

\* Math.min(a, x) and Math.max(a, x) for an integer a and a truncated x
MathMin(a, x) == IF x.nan THEN x ELSE [x EXCEPT !.int = IF a < x.int THEN a ELSE x.int]
MathMax(a, x) == IF x.nan THEN x ELSE [x EXCEPT !.int = IF a > x.int THEN a ELSE x.int]

\* memories.ts:97-98
LimitOf(limitRaw) == MathMax(1, MathMin(MaxLimit, MathTrunc(limitRaw)))

\* records.length >= limit (memories.ts:136): false when limit is NaN
AtLimit(count, limit) == ~limit.nan /\ count >= limit.int

\* memories.ts:133: the lines that are not blank
NonBlank(line) == line.kind # "blank"

\* memories.ts:138-140: the line parses to an object
ParsesToRecord(line) == line.kind = "record"

\* The loop of memories.ts:135-144: from the last line back, until the limit
PushedUntilLimit(lines, limit) ==
    LET parsed == Reverse(SelectSeq(lines, ParsesToRecord))
        count == CHOOSE n \in 0..Len(parsed) :
                     /\ n = Len(parsed) \/ AtLimit(n, limit)
                     /\ \A k \in 0..(n - 1) : ~AtLimit(k, limit)
    IN  SubSeq(parsed, 1, count)

\* readMemories without a remote log (memories.ts:96-98, 129-148)
readMemories(limitRaw, log) ==
    IF ~log.readable THEN <<>>
    ELSE PushedUntilLimit(SelectSeq(log.lines, NonBlank), LimitOf(limitRaw))

MemIdle ==
    /\ memPc = "idle"
    /\ memEnv = Undef
    /\ memReq = [authorization |-> Undef, token |-> Undef, limit |-> Undef]
    /\ memLog = [readable |-> FALSE, lines |-> <<>>]
    /\ memReads = 0
    /\ memResp = NoResp

notMemVars == <<chatVars, sanVars, fbVars, genVars, toyVars, playVars, wavVars, extVars,
                storyPageVars, convVars,
    mimeVars>>

MemErrResponse(status) == [kind |-> "json", ok |-> FALSE, status |-> status]

\* GET up to its readMemories call (route.ts:15-33)
MemAuthorize ==
    /\ memPc = "received"
    /\ IF AdminToken(memEnv) = Empty
       THEN memResp' = MemErrResponse(500) /\ memPc' = "done"
       ELSE IF Unauthorized(getTokenFromRequest(memReq), AdminToken(memEnv))
       THEN memResp' = MemErrResponse(401) /\ memPc' = "done"
       ELSE memPc' = "reading" /\ UNCHANGED memResp
    /\ UNCHANGED <<memEnv, memReq, memLog, memReads, notMemVars>>

\* readMemories and the answer (route.ts:33-39)
MemRead ==
    /\ memPc = "reading"
    /\ memReads' = memReads + 1
    /\ memResp' = [kind |-> "json", ok |-> TRUE, status |-> 200,
                   memories |-> readMemories(
                                   NumberOf(Coalesce(memReq.limit, <<50, 48, 48>>)), memLog)]
    /\ memPc' = "done"
    /\ UNCHANGED <<memEnv, memReq, memLog, notMemVars>>

MemNext == MemAuthorize \/ MemRead

-----------------------------------------------------------------------------
(* pickRecordingMime of the story toy page: src/unnamed/part_005:1130-1144 *)

RecordingMimes == {"audio/mp4", "audio/mpeg", "audio/webm;codecs=opus", "audio/webm"}

\* What MediaRecorder.isTypeSupported does for one type: true, false, or throw.
SupportAnswers == {"yes", "no", "throws"}

\* The browsers the page may run in.
MimeEnvs ==
    [isIOS : BOOLEAN, isWeChat : BOOLEAN, hasMediaRecorder : BOOLEAN,
     isTypeSupported : [RecordingMimes -> SupportAnswers]]

\* Candidates ordered for a desktop or Android browser, whatever the platform.
candidatesEverywhere(env) ==
    <<"audio/webm;codecs=opus", "audio/webm", "audio/mp4", "audio/mpeg">>

\* part_005:1131-1133
candidates(env) ==
    IF env.isIOS \/ env.isWeChat
    THEN <<"audio/mp4", "audio/mpeg", "audio/webm;codecs=opus", "audio/webm">>
    ELSE <<"audio/webm;codecs=opus", "audio/webm", "audio/mp4", "audio/mpeg">>

\* The loop of part_005:1134-1142 from candidate i on: a candidate is returned
\* when MediaRecorder is defined and isTypeSupported answers true; a throw is
\* caught and the loop goes on.
RECURSIVE pickFrom(_, _, _)
pickFrom(env, list, i) ==
    IF i > Len(list) THEN ""
    ELSE IF env.hasMediaRecorder /\ env.isTypeSupported[list[i]] = "yes"
    THEN list[i]
    ELSE pickFrom(env, list, i + 1)

\* part_005:1130-1144
pickRecordingMime(env) == pickFrom(env, candidates(env), 1)

MimeIdle ==
    /\ mimePc = "idle"
    /\ mimeEnv = [isIOS |-> FALSE, isWeChat |-> FALSE, hasMediaRecorder |-> FALSE,
                  isTypeSupported |-> [c \in RecordingMimes |-> "no"]]
    /\ mimeType = ""

notMimeVars == <<chatVars, sanVars, fbVars, genVars, toyVars, playVars, wavVars, extVars,
                 storyPageVars, convVars, memVars>>

\* startRecording asks for the recording type (part_005:1166).
PickRecordingMime ==
    /\ mimePc = "asked"
    /\ mimeType' = pickRecordingMime(mimeEnv)
    /\ mimePc' = "picked"
    /\ UNCHANGED <<mimeEnv, notMimeVars>>

MimeNext == PickRecordingMime

-----------------------------------------------------------------------------
(* Properties of the sanitizers *)

AllowedUnits(lang) ==
    IF lang = "zh" THEN CjkRange \cup {ZhStop, ZhComma}
    ELSE EnLetters \cup {EnSpace, EnComma, EnStop}

Terminator(lang) == IF lang = "zh" THEN ZhStop ELSE EnStop
Comma(lang) == IF lang = "zh" THEN ZhComma ELSE EnComma

\* The sentences of a text: what stands before each terminator (with the
\* blank that separates en sentences removed).
SentencesOf(lang, text) ==
    LET pieces == Split(text, Terminator(lang))
    IN  [i \in 1..(Len(pieces) - 1) |-> IF lang = "zh" THEN pieces[i] ELSE Trim(pieces[i])]

EndsWithTerminator(lang, text) == text # <<>> /\ text[Len(text)] = Terminator(lang)

UsesOnlyAllowed(lang, text) == \A i \in 1..Len(text) : text[i] \in AllowedUnits(lang)

StrictStory(lang, text) ==
    /\ UsesOnlyAllowed(lang, text)
    /\ EndsWithTerminator(lang, text)
    /\ LET ss == SentencesOf(lang, text)
       IN  /\ Len(ss) \in 1..MaxSentences
           /\ \A i \in 1..Len(ss) : ss[i] # <<>> /\ ss[i][Len(ss[i])] # Comma(lang)

\* C8: the sanitizer is idempotent for both languages:
\* sanitize(sanitize(x)) = sanitize(x) for every input x.
C8_SanitizerIdempotent ==
    sanPc = "twice" => sanAgain = sanOut

\* C9: for every raw input the sanitizer output is empty, or uses only the
\* language's allowed characters, has 1 to 10 non-empty sentences none of
\* which ends with a comma, and ends with the language terminator.
C9_SanitizerOutputEmptyOrStrict ==
    sanPc \in {"once", "twice"} => (sanOut = <<>> \/ StrictStory(sanLang, sanOut))

\* C10: for all seeds and both languages the fallback story uses only the
\* allowed characters of the language, has exactly 6 + (length(seed) mod 5)
\* sentences (between 6 and 10), and every sentence ends with the terminator.
C10_FallbackStoryIsStrict ==
    fbPc = "done" =>
        /\ UsesOnlyAllowed(fbLang, fbStory)
        /\ EndsWithTerminator(fbLang, fbStory)
        /\ LET ss == SentencesOf(fbLang, fbStory)
           IN  /\ Len(ss) = 6 + (Len(fbSeed) % 5)
               /\ Len(ss) \in 6..10
               /\ \A i \in 1..Len(ss) : ss[i] # <<>>

C10_Witness ==
    /\ fbPc = "done"
    /\ fbLang = "en"
    /\ Len(fbSeed) = 4
    /\ fbSeed[1] = 55357
    /\ Len(SentencesOf(fbLang, fbStory)) = 10

-----------------------------------------------------------------------------
(* Properties of the fallback choices *)

\* The list position stableChoice picks: acc % items.length
StableIndex(seed, n) == CodeSum(seed, 0) % n

\* C11: the item choice is decorrelated from the animal choice: the animal's
\* list position does not determine the item's, so for the seed of a fallback
\* story there is a seed with the same animal position whose reversed form
\* picks another item position, and likewise one whose seed + "-s" picks
\* another sound position.
C11_ItemAndSoundNotDeterminedByAnimal ==
    fbPc = "done" =>
        /\ \E other \in Seeds :
              /\ StableIndex(other, Len(ZhAnimals)) = StableIndex(fbSeed, Len(ZhAnimals))
              /\ StableIndex(Reverse(other), Len(ZhItems))
                    # StableIndex(Reverse(fbSeed), Len(ZhItems))
        /\ \E other \in Seeds :
              /\ StableIndex(other, Len(ZhAnimals)) = StableIndex(fbSeed, Len(ZhAnimals))
              /\ StableIndex(SoundSeed(other), Len(ZhSounds))
                    # StableIndex(SoundSeed(fbSeed), Len(ZhSounds))

-----------------------------------------------------------------------------
(* Properties of the generation routes *)

\* The fallback story a route substitutes for a language.
RouteFallback(route, lang, seed) ==
    IF lang = "zh" THEN fallbackStrictZhStory(seed)
    ELSE IF route = "en" THEN fallbackStrictEnglishStoryLegacy(seed)
    ELSE fallbackStrictEnglishStory(seed)

RouteLangs(route) ==
    IF route = "bilingual" THEN {"zh", "en"} ELSE {route}

GenUpstreamFailed == genUpstream \in {"neterr", "timeout", "non2xx", "empty"}

\* C6: for every non-empty seed, story generation yields a well-formed story
\* even when the upstream generator call fails or times out: the fallback
\* story is returned with ok:true instead of an error.
C6_UpstreamFailureYieldsFallbackStory ==
    (genPc = "done" /\ genSeed # <<>> /\ GenUpstreamFailed) =>
        /\ genResp.ok
        /\ \A lang \in RouteLangs(genRoute) :
              LET story == IF lang = "zh" THEN genResp.storyZh ELSE genResp.storyEn
              IN  story = RouteFallback(genRoute, lang, genSeed)

\* C7: when the upstream call succeeds but sanitizing a language's text yields
\* empty, the story returned for that language is the fallback story of the
\* seed, unchanged, with ok:true and no error surfaced.
C7_EmptySanitizedTextBecomesFallback ==
    (genPc = "done" /\ genUpstream = "ok") =>
        /\ genResp.ok
        /\ genResp.status = 200
        /\ \A lang \in RouteLangs(genRoute) :
              genSanitized[lang] = <<>> =>
                 LET story == IF lang = "zh" THEN genResp.storyZh ELSE genResp.storyEn
                 IN  story = RouteFallback(genRoute, lang, genSeed)

C7_Witness ==
    /\ genPc = "done"
    /\ genUpstream = "ok"
    /\ genRoute = "bilingual"
    /\ genSanitized.zh = <<>>
    /\ genSanitized.en # <<>>
    /\ genResp.ok
    /\ genResp.storyZh = fallbackStrictZhStory(genSeed)
    /\ genResp.storyEn = genSanitized.en

\* sleepyTailRe or templateRe of the language matches the raw story
EndsWithSleepyClause(lang, raw) ==
    LET s == TrimEndOf(raw, WsSet)
    IN  IF lang = "zh"
        THEN BeforeZhTemplate(s) # Undef \/ BeforeZhSleepyTail(s) # Undef
        ELSE BeforeEnSleepyTail(s) # Undef

\* The alternative ending stableChoice selects for the seed
ChosenEnding(lang, seed) ==
    stableChoice(seed, IF lang = "zh" THEN ZhEndings ELSE EnEndings)

ReturnedStory(lang) == IF lang = "zh" THEN genResp.storyZh ELSE genResp.storyEn

\* C12: on every generation path, whenever the raw upstream story ends with a
\* sleepy closing clause, the story returned ends with the alternative ending
\* stableChoice(seed, endings) selects, and no longer with the sleepy clause.
C12_SleepyEndingReplacedOnEveryPath ==
    (genPc = "done" /\ genUpstream = "ok") =>
        \A lang \in RouteLangs(genRoute) :
            EndsWithSleepyClause(lang, genRaw[lang]) =>
                /\ EndsWith(ReturnedStory(lang), ChosenEnding(lang, genSeed))
                /\ ~EndsWithSleepyClause(lang, ReturnedStory(lang))

-----------------------------------------------------------------------------
(* Properties of the log *)

\* C25: when appendMemory fails (no record is added), the chat handler and
\* the generation handlers return the ok:true response built from the turn's
\* or the story's values, as they do when it succeeds.
C25_LogFailureLeavesResponse ==
    [][/\ (chatPc = "log" /\ chatPc' = "done" /\ memories' = memories) =>
            chatResp' = OkResponse(chatReq, textOut, assistantAudioBase64, requestId,
                                   upstreamMode)
       /\ (genPc = "log" /\ genPc' = "done" /\ genMemories' = genMemories) =>
            genResp' = GenOk(genStory)]_vars

\* A chat turn was answered ok:true although no record was ever appended.
C25_Witness ==
    /\ chatPc = "done"
    /\ chatResp.kind = "json" /\ chatResp.ok
    /\ memories = 0


\* A chat request without a story, or without any input of the child.
InvalidChatRequest(req) ==
    \/ clampText(req.story, 1400) = Empty
    \/ clampText(req.inputText, 300) = Empty /\ req.inputAudioBase64 = Empty

\* The chat handler has answered `status` with ok:false, has called no
\* upstream and has left the log as it was.
ChatRejected(status) ==
    /\ chatPc' = "done"
    /\ chatResp'.kind = "json" /\ ~chatResp'.ok /\ chatResp'.status = status
    /\ calls' = <<>>
    /\ memories' = memories

\* The same of a generation route.
GenRejected(status) ==
    /\ genPc' = "done"
    /\ genResp'.kind = "json" /\ ~genResp'.ok /\ genResp'.status = status
    /\ genUpstream' = "none"
    /\ genMemories' = genMemories

-----------------------------------------------------------------------------
(* Properties of the story toy page *)

\* C13: at most one chat turn is in flight at a time: whatever entry point
\* calls sendChat, no /api/chat request is issued while an earlier one is
\* still outstanding.
C13_AtMostOneChatTurnInFlight == Cardinality(requests) <= 1

\* C14: a recording aborted with stopRecordingNow before it is sent never
\* leads to a chat turn: neither its onstop handler nor its watchdog issues a
\* request on its behalf, also when a new recording starts before the aborted
\* recorder's stop event is delivered.
C14_AbortedRecordingSendsNoTurn == \A req \in requests : ~req.aborted

\* Recorder r was aborted, or its onstop handler has run.
AbortedOrCompleted(r) ==
    recorders[r].aborted \/ recorders[r].phase \in {"encoding", "sending", "done"}

\* A step of a timer or callback that belongs to recorder r
CallbackOf(r) ==
    \/ OnStop(r)
    \/ HardStopFires(r)
    \/ \E w \in watchdogs : w.recorder = r /\ WatchdogFires(w)

\* The step leaves the recording of the recorder the ref holds as it is.
CurrentRecordingUntouched ==
    /\ mediaRecorderRef' = mediaRecorderRef
    /\ recorders'[mediaRecorderRef].phase = recorders[mediaRecorderRef].phase
    /\ streamRef' = streamRef
    /\ recordedChunksRef' = recordedChunksRef
    /\ recording' = recording
    /\ \A w \in watchdogs : w.recorder = mediaRecorderRef => w \in watchdogs'

\* C16: no timer or callback of an aborted or completed recording changes the
\* state of a newer recording: it does not stop the newer recorder, clear its
\* recorder or stream reference or its chunks, flip the recording flag, or
\* cancel its watchdog.
C16_OldCallbacksLeaveNewerRecordingAlone ==
    [][\A r \in RecorderIds :
          (/\ AbortedOrCompleted(r)
           /\ mediaRecorderRef \notin {NoRecorder, r}
           /\ CallbackOf(r)) => CurrentRecordingUntouched]_vars

-----------------------------------------------------------------------------
\* No recording is under way as far as the page knows: nothing is starting,
\* the recording flag is down and the refs hold no recorder and no stream.
NoRecordingUnderWay ==
    /\ ~recording
    /\ mediaRecorderRef = NoRecorder
    /\ streamRef = NoRecorder
    /\ \A r \in RecorderIds : recorders[r].phase # "starting"

\* C21: at most one microphone stream has running tracks, and none has once
\* no recording is under way.
C21_StreamsAreReleased ==
    /\ Cardinality(liveTracks) <= 1
    /\ NoRecordingUnderWay => liveTracks = {}

UserMessageAt(turn) ==
    {i \in DOMAIN chatMessages : chatMessages[i] = [role |-> "user", turn |-> turn]}

AssistantMessages(history) ==
    SelectSeq(history, LAMBDA m : m.role = "assistant")

\* C20: while a turn's request is outstanding its user message is already in
\* the history and no assistant message of the turn is; an assistant message
\* follows its turn's user message; a step appends an assistant message only
\* as the ok:true answer of an outstanding request, and a failed turn leaves
\* the history as it is.
C20_HistoryFollowsTheTurn ==
    /\ [](/\ \A req \in requests : UserMessageAt(req.turn) # {}
          /\ \A i \in DOMAIN chatMessages :
                chatMessages[i].role = "assistant" =>
                  /\ \E j \in UserMessageAt(chatMessages[i].turn) : j < i
                  /\ \A req \in requests : req.turn # chatMessages[i].turn)
    /\ [][/\ AssistantMessages(chatMessages') # AssistantMessages(chatMessages) =>
               \E req \in requests :
                  /\ ChatOk(req)
                  /\ AssistantMessages(chatMessages') =
                       Append(AssistantMessages(chatMessages),
                              [role |-> "assistant", turn |-> req.turn])
          /\ \A req \in requests : ChatFails(req) => chatMessages' = chatMessages]_vars

\* The first turn failed and the second was answered.
C20_Witness ==
    /\ requests = {}
    /\ chatMessages = <<[role |-> "user", turn |-> 1], [role |-> "user", turn |-> 2],
                        [role |-> "assistant", turn |-> 2]>>

\* The turn counter of the model has room for the nudge of a watchdog.
TurnsLeft == nextTurn <= MaxChatTurns

C33_RecordingEndsWithPress ==
    ~chatPressingRef => \A r \in RecorderIds : recorders[r].phase # "recording"

-----------------------------------------------------------------------------
(* Properties of the deferred playback *)

\* C17: the conversation modality has at most one pending playback item: a
\* reply's audio url and a reply's speech text are never both armed and
\* waiting for the next gesture.
C17_OnePendingItemPerModality ==
    ~(/\ chatPlayOnGestureArmedRef /\ pendingChatPlayUrlRef # NoText
      /\ chatSpeakOnGestureArmedRef /\ pendingChatSpeakTextRef # NoText)

\* C18: the events of one tap make at most one playback attempt per armed
\* kind of pending playback.
C18_OneAttemptPerGesture ==
    \A kind \in PlaybackKinds : gestureAttempts[kind] <= 1

\* C19: at most one listener set per kind is registered, it is registered
\* exactly while the kind's armed flag is set, and a schedule call made while
\* the kind is armed changes nothing.
C19_RearmingIsIdempotent ==
    /\ \A kind \in PlaybackKinds : gestureListeners[kind] <= 1
    /\ speakOnGestureArmedRef <=> gestureListeners["speak"] = 1
    /\ chatSpeakOnGestureArmedRef <=> gestureListeners["chatSpeak"] = 1
    /\ chatPlayOnGestureArmedRef <=> gestureListeners["chatPlay"] = 1
    /\ speakOnGestureArmedRef =>
         scheduleSpeakOnNextGesture(PlaybackRefs) = PlaybackRefs
    /\ chatSpeakOnGestureArmedRef =>
         scheduleChatSpeakOnNextGesture(PlaybackRefs) = PlaybackRefs
    /\ chatPlayOnGestureArmedRef =>
         scheduleChatPlayOnNextGesture(PlaybackRefs) = PlaybackRefs

\* The first reply's speech failed before any gesture: speakChatWithSystem
\* armed the listener and sendChat then called the schedule function again.
C19_Witness ==
    /\ turnsAnswered = 1
    /\ gestureEvent = 0
    /\ chatSpeakOnGestureArmedRef
    /\ pendingChatSpeakTextRef = 1
    /\ gestureListeners["chatSpeak"] = 1

\* Nothing of a reply is pending.
NoReplyPending(p) ==
    p.pendingChatPlayUrlRef = NoText /\ p.pendingChatSpeakTextRef = NoText

\* The chat listeners, fired on refs p, attempt no playback.
ChatListenersPlayNothing(p) ==
    /\ \A speaks \in BOOLEAN : ChatSpeakListener(p, speaks).attempts = p.attempts
    /\ ChatPlayListener(p).attempts = p.attempts

\* C35: sendChat clears both pending payloads of the conversation before it
\* issues its request, so a listener still armed from the previous turn plays
\* nothing of the previous reply when it fires.
C35_NewTurnDropsDeferredReply ==
    [][turnsStarted' = turnsStarted + 1 =>
          NoReplyPending(PlaybackRefs') /\ ChatListenersPlayNothing(PlaybackRefs')]_vars

\* The second turn has started while the first reply's listeners were armed
\* and waiting for a gesture.
C35_Witness ==
    /\ turnsStarted = 2
    /\ turnsAnswered = 1
    /\ chatSpeakOnGestureArmedRef
    /\ chatPlayOnGestureArmedRef
    /\ NoReplyPending(PlaybackRefs)

-----------------------------------------------------------------------------
(* Properties of the recording encoder *)

\* Reading a little-endian field back from the header
FieldAt(header, offset, width) ==
    LET byte(i) == header[offset + i]
    IN  IF width = 2 THEN byte(1) + 256 * byte(2)
        ELSE byte(1) + 256 * byte(2) + 65536 * byte(3) + 16777216 * byte(4)

\* C22: the header has 44 bytes and declares PCM (format 1), one channel,
\* 16000 Hz, 16 bits per sample, block align 2, byte rate 32000, a RIFF size
\* of 36 + dataSize and a data size of twice the sample count, for every
\* channel count and sample rate of the input.
C22_WavHeaderIsMono16k ==
    wavPc = "encoded" =>
        LET h == wavBlob.header
            dataSize == wavBlob.size - 44
        IN  /\ Len(h) = 44
            /\ SubSeq(h, 1, 4) = Riff /\ SubSeq(h, 9, 12) = Wave
            /\ SubSeq(h, 13, 16) = Fmt /\ SubSeq(h, 37, 40) = Data
            /\ FieldAt(h, 16, 4) = 16
            /\ FieldAt(h, 20, 2) = 1
            /\ FieldAt(h, 22, 2) = 1
            /\ FieldAt(h, 24, 4) = 16000
            /\ FieldAt(h, 28, 4) = 32000
            /\ FieldAt(h, 32, 2) = 2
            /\ FieldAt(h, 34, 2) = 16
            /\ FieldAt(h, 4, 4) = 36 + dataSize
            /\ FieldAt(h, 40, 4) = dataSize
            /\ dataSize = 2 * SampleCount(wavBuffer)

\* A stereo recording at a rate other than the target was encoded.
C22_Witness ==
    /\ wavPc = "encoded"
    /\ wavBuffer.numberOfChannels = 2
    /\ wavBuffer.sampleRate = 44100

\* C23: the clip has min(resampled length, 128000) samples, and an input
\* longer than 8 seconds gives exactly 128000 samples, 44 + 256000 bytes,
\* resampled or not.
C23_ClipIsAtMostEightSeconds ==
    wavPc = "encoded" =>
        LET samples == FieldAt(wavBlob.header, 40, 4) \div 2
            resampled == ResampledLength(wavBuffer.length, wavBuffer.sampleRate, 16000)
        IN  /\ samples = IF resampled <= 128000 THEN resampled ELSE 128000
            /\ wavBuffer.length > 8 * wavBuffer.sampleRate =>
                 samples = 128000 /\ wavBlob.size = 44 + 256000

\* An input of more than 8 seconds that needed no resampling was encoded.
C23_Witness ==
    /\ wavPc = "encoded"
    /\ wavBuffer.length > 8 * wavBuffer.sampleRate
    /\ wavBuffer.sampleRate = 16000

-----------------------------------------------------------------------------
(* Properties of the text extraction *)

\* The candidate locations of a body, in priority order.
Locations(json) == <<json.messageContent, json.deltaContent, json.dataMessageContent>>

NonEmptyText(t) == t # Undef /\ Trim(t) # Empty

HasText(json) == \E i \in 1..3 : NonEmptyText(Locations(json)[i])

\* The text of the first location that has some.
FirstText(json) ==
    LET i == CHOOSE j \in 1..3 :
                 /\ NonEmptyText(Locations(json)[j])
                 /\ \A k \in 1..(j - 1) : ~NonEmptyText(Locations(json)[k])
    IN  Trim(Locations(json)[i])

\* C28: the extraction tries choices[0].message.content, choices[0].delta.content
\* and data.choices[0].message.content in this order and fails only if none of
\* them has non-empty text: a present-but-empty earlier location does not keep a
\* later non-empty one from being returned.
C28_ExtractionSkipsEmptyLocations ==
    /\ extVoicePc \in {"returned", "thrown"} =>
          IF HasText(extJson)
          THEN extVoicePc = "returned" /\ extVoiceText = FirstText(extJson)
          ELSE extVoicePc = "thrown"
    /\ extChatPc \in {"returned", "thrown"} =>
          IF HasText(extJson)
          THEN extChatPc = "returned" /\ extContent = FirstText(extJson)
          ELSE extChatPc = "thrown"

-----------------------------------------------------------------------------
(* Properties of generate *)

StoryReceived == generatePc \in {"tts", "play"}

\* The speech of this step failed: /api/tts or audio.play().
SpeechFailedNow == ttsRes' \in TtsFailures \/ playRes' = "rejected"

\* The story goes to the system voice or waits for the next gesture.
StoryIsSpokenOrDeferred ==
    \/ canSystemSpeak /\ pendingSpeakTextRef' = NoText
    \/ /\ pendingSpeakTextRef' = storyZh
       /\ canSystemSpeak => speakOnGestureArmedRef' /\ gestureListeners'["speak"] > 0

\* C29: once the story is received it stays stored and shown; a failure of
\* /api/tts (the 400 for a missing TTS model included), of audio.play() or of the
\* system voice only moves the playback to the system voice or to the next
\* gesture, ends with busy = false, and neither clears the story nor reports a
\* generation failure.
C29_SpeechFailureKeepsStory ==
    /\ [](StoryReceived => busy /\ storyZh # NoText /\ storyEn # NoText)
    /\ [](generatePc = "idle" => ~busy)
    /\ [][StoryReceived =>
            /\ storyZh' = storyZh
            /\ storyEn' = storyEn
            /\ error' # friendlyGenerateFailure
            /\ SpeechFailedNow =>
                  /\ generatePc' = "idle"
                  /\ ~busy'
                  /\ StoryIsSpokenOrDeferred]_vars

C29_Witness ==
    /\ generatePc = "idle"
    /\ ttsRes = "missing_model"
    /\ ~busy
    /\ storyZh # NoText
    /\ error = friendlyNeedTapSpeaker
    /\ pendingSpeakTextRef = storyZh
    /\ speakOnGestureArmedRef

-----------------------------------------------------------------------------
(* Properties of the conversation id *)

Handled(t) == convTurns[t].server # "pending"

\* C30: the server mints an id only for a request that carries none and echoes
\* a supplied id unchanged; the page sends the id it has stored; so all turns
\* between two resets (or new generations) run under one and the same id.
C30_OneConversationIdPerSession ==
    /\ \A t \in DOMAIN convTurns :
          Handled(t) =>
             IF convTurns[t].sent = Undef
             THEN \E k \in 1..uuids : convTurns[t].served = Uuid(k)
             ELSE convTurns[t].served = convTurns[t].sent
    /\ \A t, u \in DOMAIN convTurns :
          (Handled(t) /\ Handled(u) /\ convTurns[t].epoch = convTurns[u].epoch) =>
             convTurns[t].served = convTurns[u].served

\* A turn has been started since the last resetAll or generate.
TurnSinceReset == \E t \in DOMAIN convTurns : convTurns[t].epoch = convEpoch

\* C34: after resetAll or the start of a generation the conversation stays
\* cleared until a new turn is started: the reply of a turn that was in flight
\* at the reset is not applied afterwards.
C34_ResetDropsReplyInFlight == ~TurnSinceReset => conversationId = Empty

-----------------------------------------------------------------------------
(* Properties of GET /api/memories *)

ReturnsNoRecord ==
    /\ memReads = 0
    /\ memResp.kind = "json"
    /\ ~memResp.ok
    /\ "memories" \notin DOMAIN memResp

\* C31: without STORY_ADMIN_TOKEN the route answers 500; with it, a request
\* whose bearer or query token is missing or differs gets 401; in both cases
\* readMemories is not called and no record is returned.
C31_RecordsOnlyForAdminToken ==
    /\ memPc \in {"received", "reading"} => memReads = 0 /\ memResp = NoResp
    /\ memPc = "reading" => getTokenFromRequest(memReq) = AdminToken(memEnv)
    /\ memPc = "done" =>
          IF AdminToken(memEnv) = Empty
          THEN memResp.status = 500 /\ ReturnsNoRecord
          ELSE IF \/ getTokenFromRequest(memReq) = Empty
                  \/ getTokenFromRequest(memReq) # AdminToken(memEnv)
          THEN memResp.status = 401 /\ ReturnsNoRecord
          ELSE memResp.ok /\ memReads = 1

C31_Witness ==
    /\ memPc = "done"
    /\ memEnv = Tok
    /\ memReq.authorization = BearerBad
    /\ memReq.token = Tok
    /\ memLog.lines # <<>>
    /\ memResp.status = 401
    /\ memReads = 0

\* The number the route hands to readMemories (route.ts:33)
RequestedLimit == NumberOf(Coalesce(memReq.limit, <<50, 48, 48>>))

\* min(1000, max(1, trunc(limit))); for a limit that is no number, 1000
ClaimedLimit ==
    IF RequestedLimit.nan THEN MaxLimit
    ELSE IF RequestedLimit.int < 1 THEN 1
    ELSE IF RequestedLimit.int > MaxLimit THEN MaxLimit
    ELSE RequestedLimit.int

\* The records of the log, in append order
AppendedRecords == SelectSeq(memLog.lines, ParsesToRecord)

\* C37: readMemories on the local file returns the most recent records first:
\* at most min(1000, max(1, trunc(limit))) of them (200 by default), from the
\* end of the log in reverse append order, unparsable lines skipped, and the
\* empty list when the file cannot be read.
C37_ReadReturnsMostRecent ==
    (memPc = "done" /\ memResp.ok) =>
        /\ Len(memResp.memories) <= ClaimedLimit
        /\ \A i \in 1..Len(memResp.memories) :
              /\ i <= Len(AppendedRecords)
              /\ memResp.memories[i] = AppendedRecords[Len(AppendedRecords) + 1 - i]
        /\ ~memLog.readable => memResp.memories = <<>>

-----------------------------------------------------------------------------
(* Properties of pickRecordingMime *)

\* The priority list by platform.
PriorityList(env) ==
    IF env.isIOS \/ env.isWeChat
    THEN <<"audio/mp4", "audio/mpeg", "audio/webm;codecs=opus", "audio/webm">>
    ELSE <<"audio/webm;codecs=opus", "audio/webm", "audio/mp4", "audio/mpeg">>

\* The platform's recorder supports type c.
RecorderSupports(env, c) ==
    env.hasMediaRecorder /\ env.isTypeSupported[c] = "yes"

\* C38: pickRecordingMime returns the first type of the platform's priority
\* list that the recorder supports, and "" when it supports none.
C38_FirstSupportedMime ==
    mimePc = "picked" =>
        LET list == PriorityList(mimeEnv)
            supported == {i \in 1..Len(list) : RecorderSupports(mimeEnv, list[i])}
        IN  IF supported = {}
            THEN mimeType = ""
            ELSE \E i \in supported :
                    /\ \A j \in supported : i <= j
                    /\ mimeType = list[i]

\* In WeChat on Android, where the recorder throws for audio/mp4, refuses
\* audio/mpeg and supports both webm types, the opus one is picked.
C38_Witness ==
    /\ mimePc = "picked"
    /\ ~mimeEnv.isIOS /\ mimeEnv.isWeChat /\ mimeEnv.hasMediaRecorder
    /\ mimeEnv.isTypeSupported["audio/mp4"] = "throws"
    /\ mimeEnv.isTypeSupported["audio/mpeg"] = "no"
    /\ mimeEnv.isTypeSupported["audio/webm;codecs=opus"] = "yes"
    /\ mimeEnv.isTypeSupported["audio/webm"] = "yes"
    /\ mimeType = "audio/webm;codecs=opus"

-----------------------------------------------------------------------------
(* Specifications *)

ChatInit == ChatIdle /\ SanIdle /\ FbIdle /\ GenIdle /\ ToyIdle /\ PlayIdle /\ WavIdle /\ ExtIdle /\ StoryPageIdle /\ ConvIdle /\ MemIdle /\ MimeIdle

ChatSpec == ChatInit /\ [][ChatNext]_vars

SanitizerInit == ChatIdle /\ SanInit /\ FbIdle /\ GenIdle /\ ToyIdle /\ PlayIdle /\ WavIdle /\ ExtIdle /\ StoryPageIdle /\ ConvIdle /\ MemIdle /\ MimeIdle

SanitizerSpec == SanitizerInit /\ [][SanNext]_vars

FallbackInit == ChatIdle /\ SanIdle /\ FbInit /\ GenIdle /\ ToyIdle /\ PlayIdle /\ WavIdle /\ ExtIdle /\ StoryPageIdle /\ ConvIdle /\ MemIdle /\ MimeIdle

FallbackSpec == FallbackInit /\ [][FbNext]_vars

GenInit == ChatIdle /\ SanIdle /\ FbIdle /\ GenIdle /\ ToyIdle /\ PlayIdle /\ WavIdle /\ ExtIdle /\ StoryPageIdle /\ ConvIdle /\ MemIdle /\ MimeIdle

GenSpec == GenInit /\ [][GenNext]_vars

ToyInit == ChatIdle /\ SanIdle /\ FbIdle /\ GenIdle /\ ToyIdle /\ PlayIdle /\ WavIdle /\ ExtIdle /\ StoryPageIdle /\ ConvIdle /\ MemIdle /\ MimeIdle

ToySpec == ToyInit /\ [][ToyNext]_vars

\* The server handles chat turns or story generations, with a log that may
\* fail.
LogInit == ChatIdle /\ SanIdle /\ FbIdle /\ GenIdle /\ ToyIdle /\ PlayIdle /\ WavIdle /\ ExtIdle /\ StoryPageIdle /\ ConvIdle /\ MemIdle /\ MimeIdle

LogNext == (GenIdle /\ ChatNext) \/ (ChatIdle /\ GenNext)

LogSpec == LogInit /\ [][LogNext]_vars

\* The page is loaded in a browser with or without speechSynthesis.
PlayInit ==
    /\ ChatIdle /\ SanIdle /\ FbIdle /\ GenIdle /\ ToyIdle /\ WavIdle /\ ExtIdle /\ StoryPageIdle /\ ConvIdle /\ MemIdle /\ MimeIdle
    /\ \E speech \in BOOLEAN :
         /\ canSystemSpeak = speech
         /\ pendingSpeakTextRef = NoText
         /\ speakOnGestureArmedRef = FALSE
         /\ pendingChatSpeakTextRef = NoText
         /\ chatSpeakOnGestureArmedRef = FALSE
         /\ pendingChatPlayUrlRef = NoText
         /\ chatPlayOnGestureArmedRef = FALSE
         /\ gestureListeners = [k \in PlaybackKinds |-> 0]
         /\ gestureAttempts = [k \in PlaybackKinds |-> 0]
         /\ gestureEvent = 0
         /\ chatPlaysAwaited = 0
         /\ turnsStarted = 0
         /\ turnsAnswered = 0

PlaySpec == PlayInit /\ [][PlayNext]_vars

\* Any of the decoded buffers is handed to the encoder.
WavInit ==
    /\ ChatIdle /\ SanIdle /\ FbIdle /\ GenIdle /\ ToyIdle /\ PlayIdle /\ ExtIdle /\ StoryPageIdle /\ ConvIdle /\ MemIdle /\ MimeIdle
    /\ wavPc = "decoded"
    /\ wavBuffer \in AudioBuffers
    /\ wavBlob = NoWav

WavSpec == WavInit /\ [][WavNext]_vars

\* Any of the bodies is handed to both extractions.
ExtInit ==
    /\ ChatIdle /\ SanIdle /\ FbIdle /\ GenIdle /\ ToyIdle /\ PlayIdle /\ WavIdle /\ StoryPageIdle /\ ConvIdle /\ MemIdle /\ MimeIdle
    /\ extJson \in ChatJsons
    /\ extVoicePc = "parsed"
    /\ extVoiceText = Undef
    /\ extChatPc = "parsed"
    /\ extContent = Undef

ExtSpec == ExtInit /\ [][ExtNext]_vars

\* The page is loaded, in a browser with or without speechSynthesis, and the
\* child asks for stories.
StoryPageInit ==
    /\ ChatIdle /\ SanIdle /\ FbIdle /\ GenIdle /\ ToyIdle /\ WavIdle /\ ExtIdle /\ ConvIdle /\ MemIdle /\ MimeIdle
    /\ StoryPageIdle
    /\ \E speech \in BOOLEAN :
         /\ canSystemSpeak = speech
         /\ pendingSpeakTextRef = NoText
         /\ speakOnGestureArmedRef = FALSE
         /\ pendingChatSpeakTextRef = NoText
         /\ chatSpeakOnGestureArmedRef = FALSE
         /\ pendingChatPlayUrlRef = NoText
         /\ chatPlayOnGestureArmedRef = FALSE
         /\ gestureListeners = [k \in PlaybackKinds |-> 0]
         /\ gestureAttempts = [k \in PlaybackKinds |-> 0]
         /\ gestureEvent = 0
         /\ chatPlaysAwaited = 0
         /\ turnsStarted = 0
         /\ turnsAnswered = 0

StoryPageSpec == StoryPageInit /\ [][StoryPageNext]_vars

\* The page has a story and the child talks about it.
ConvInit ==
    /\ ChatIdle /\ SanIdle /\ FbIdle /\ GenIdle /\ ToyIdle /\ PlayIdle /\ WavIdle /\ ExtIdle /\ StoryPageIdle /\ MemIdle /\ MimeIdle
    /\ conversationId = Empty
    /\ convBusy = FALSE
    /\ convTurns = <<>>
    /\ convEpoch = 0
    /\ uuids = 0

ConvSpec == ConvInit /\ [][ConvNext]_vars

\* A request for the log arrives.
MemInit ==
    /\ ChatIdle /\ SanIdle /\ FbIdle /\ GenIdle /\ ToyIdle /\ PlayIdle /\ WavIdle /\ ExtIdle /\ StoryPageIdle /\ ConvIdle /\ MimeIdle
    /\ memPc = "received"
    /\ memEnv \in {Undef, Blank, Tok, PaddedTok}
    /\ memReq \in MemRequests
    /\ memLog \in MemLogs
    /\ memReads = 0
    /\ memResp = NoResp

MemSpec == MemInit /\ [][MemNext]_vars

\* The page with its timers and promises running: a pending stop watchdog
\* fires, an encoding settles (withTimeout), a request to /api/chat settles
\* (its 16 s abort timer).  Nothing is assumed of the recorder's stop event or
\* of the child.
ToyFairness ==
    /\ WF_vars(\E w \in watchdogs : WatchdogFires(w))
    /\ WF_vars(\E r \in RecorderIds : Encoded(r) \/ SendsOriginal(r) \/ EncodeFails(r))
    /\ WF_vars(\E req \in requests : ChatOk(req) \/ ChatFails(req))

ToyLiveSpec == ToyInit /\ [][ToyNext]_vars /\ ToyFairness

\* startRecording runs in some browser.
MimeInit ==
    /\ ChatIdle /\ SanIdle /\ FbIdle /\ GenIdle /\ ToyIdle /\ PlayIdle /\ WavIdle /\ ExtIdle /\ StoryPageIdle /\ ConvIdle /\ MemIdle
    /\ mimePc = "asked"
    /\ mimeEnv \in MimeEnvs
    /\ mimeType = ""

MimeSpec == MimeInit /\ [][MimeNext]_vars

Init == ChatIdle /\ SanIdle /\ FbIdle /\ GenIdle /\ ToyIdle /\ PlayIdle /\ WavIdle /\ ExtIdle /\ StoryPageIdle /\ ConvIdle /\ MemIdle /\ MimeIdle

Next == ChatNext \/ SanNext \/ FbNext \/ GenNext \/ ToyNext \/ PlayNext \/ WavNext
    \/ ExtNext
    \/ StoryPageNext
    \/ ConvNext
    \/ MemNext
    \/ MimeNext

Spec == Init /\ [][Next]_vars

=============================================================================
